---- MODULE Spec2Model ----
\* Verification model of the stock-pick report pipeline (web_rebuild/backend):
\* the rule engine of stage 4, the report/stage state machine of
\* services/pipeline_service.py and the HTTP handlers of api/reports.py and
\* api/pipeline.py that drive it.
EXTENDS Integers, Sequences, FiniteSets, TLC

VARIABLES
    ruleIn,         \* arguments of one _apply_rules_to_stock call (rule-engine harness)
    ruleOut,        \* its return value, i.e. the fields step 4 writes to stock_pool_2
    reports,        \* table reports: rows [id, report_date, status]
    raw_articles,   \* table raw_articles: rows [id, report_id]
    hot_topics,     \* table hot_topics: rows [id, report_id, related_boards]
    stock_pool_1,   \* table stock_pool_1
    stock_pool_2,   \* table stock_pool_2
    nextId,         \* AUTO_INCREMENT counter of each table
    env,            \* the collaborators' behaviour: LLM, market data, driver, rule rows
    background_tasks, \* BackgroundTasks of every request: run_step_task calls not yet run
    h,              \* per request handler: the request it serves and where it is
    nreq,           \* number of requests received so far
    matchIn,        \* arguments of one _match_concept_name call (resolver harness)
    matchOut,       \* its return value
    picksRun,       \* one generate_picks_api request (batch harness)
    fetchRun,       \* one _fetch_board_constituents_by_code call (fetch harness)
    cacheRun        \* the board catalog cache and the latest _get_industry_list call

ruleVars == <<ruleIn, ruleOut>>
matchVars == <<matchIn, matchOut>>
harnessVars == <<ruleIn, ruleOut, matchIn, matchOut,
                picksRun,
                fetchRun,
                cacheRun>>
tables == <<reports, raw_articles, hot_topics, stock_pool_1, stock_pool_2, nextId>>
appVars == <<reports, raw_articles, hot_topics, stock_pool_1, stock_pool_2, nextId,
             env, background_tasks, h, nreq>>
vars == <<ruleIn, ruleOut, reports, raw_articles, hot_topics, stock_pool_1,
          stock_pool_2, nextId, env, background_tasks, h, nreq, matchIn, matchOut,
          picksRun,
          fetchRun,
          cacheRun>>

\* ------------------------------------------------------------------------
\* Values
\* ------------------------------------------------------------------------

\* A metric cell is a tagged value: a number, or one of the non-numbers below.
Num(n) == [tag |-> "num", n |-> n]
\* dict.get(key) on a snapshot without that key
Absent == [tag |-> "absent", n |-> 0]
\* Python None
Null == [tag |-> "null", n |-> 0]
\* a fetched value that float() cannot convert / a non-numeric value
Bad == [tag |-> "bad", n |-> 0]

\* Metric values are integers in units of 1/2 (1.5 is 3); scores are integers in
\* units of 1/12 (1.0 is 12, 0.5 is 6), so that every division the code performs
\* on the modelled values is exact.
ScoreOne == 12
ScoreHalf == 6
ScoreZero == 0

\* ------------------------------------------------------------------------
\* Bounds
\* ------------------------------------------------------------------------

\* longest enabled-rule list handed to _apply_rules_to_stock by the harness
MaxRules == 2

\* ------------------------------------------------------------------------
\* Rule registry and rule classes (rules/registry.py, technical.py, fundamental.py)
\* ------------------------------------------------------------------------

RULE_REGISTRY ==
    {"market_cap", "volume_ratio", "price_change", "turnover_rate",
     "pe_ratio", "pb_ratio", "roe"}

TECH_RULES == {"volume_ratio", "price_change", "turnover_rate"}
FUND_RULES == {"pe_ratio", "pb_ratio", "roe"}

Metrics ==
    {"market_cap", "volume_ratio", "change_pct", "turnover_rate",
     "pe_ratio", "pb_ratio", "roe"}

\* the snapshot key each rule class reads
MetricOf(rule_key) ==
    CASE rule_key = "market_cap" -> "market_cap"
      [] rule_key = "volume_ratio" -> "volume_ratio"
      [] rule_key = "price_change" -> "change_pct"
      [] rule_key = "turnover_rate" -> "turnover_rate"
      [] rule_key = "pe_ratio" -> "pe_ratio"
      [] rule_key = "pb_ratio" -> "pb_ratio"
      [] rule_key = "roe" -> "roe"
      [] OTHER -> "none"

\* rule classes whose check() falls back to an akshare fetch when the snapshot
\* has no value
FetchingRules == {"market_cap", "pe_ratio", "pb_ratio", "roe"}

\* get_rule_class: KeyError for a key that is not registered
get_rule_class(rule_key) ==
    IF rule_key \notin RULE_REGISTRY THEN "KeyError" ELSE rule_key

\* snapshot_data.get(key): None when the key is missing or maps to None
SnapGet(snapshot, key) ==
    IF snapshot[key] = Absent THEN Null ELSE snapshot[key]

\* snapshot_data.get(key, 0): 0 only when the key is missing
SnapGetDefault0(snapshot, key) ==
    IF snapshot[key] = Absent THEN Num(0) ELSE snapshot[key]

IsNumber(v) == v.tag = "num"

\* RuleResult(passed, score, ...); raised marks an exception escaping check()
RuleResult(passed, score) == [raised |-> FALSE, passed |-> passed, score |-> score]
Raised == [raised |-> TRUE, passed |-> FALSE, score |-> 0]

MinOf(a, b) == IF a <= b THEN a ELSE b

\* lo <= v <= hi over numbers; a None/str operand raises TypeError
RangeCheck(lo, v, hi) ==
    IF ~IsNumber(v) THEN Raised
    ELSE LET passed == lo <= v.n /\ v.n <= hi
         IN RuleResult(passed, IF passed THEN ScoreOne ELSE ScoreZero)

\* MarketCapRule.check: snapshot first, then akshare; a fetch that fails or
\* yields a non-numeric value leaves market_cap None
MarketCapRule_check(params, snapshot, fetched) ==
    LET snap == SnapGet(snapshot, "market_cap")
        market_cap == IF snap # Null THEN snap
                      ELSE IF IsNumber(fetched) THEN fetched ELSE Null
    IN IF market_cap = Null THEN RuleResult(TRUE, ScoreHalf)
       ELSE RangeCheck(params.lo, market_cap, params.hi)

\* VolumeRatioRule.check
VolumeRatioRule_check(params, snapshot) ==
    LET volume_ratio == SnapGetDefault0(snapshot, "volume_ratio")
    IN IF ~IsNumber(volume_ratio) THEN Raised   \* None >= float: TypeError
       ELSE LET passed == volume_ratio.n >= params.lo
            IN IF ~passed THEN RuleResult(FALSE, ScoreZero)
               ELSE IF params.lo = 0 THEN Raised   \* ZeroDivisionError
               ELSE RuleResult(TRUE,
                        MinOf((ScoreOne * volume_ratio.n) \div params.lo, ScoreOne))

\* PriceChangeRule.check
PriceChangeRule_check(params, snapshot) ==
    RangeCheck(params.lo, SnapGetDefault0(snapshot, "change_pct"), params.hi)

\* TurnoverRateRule.check
TurnoverRateRule_check(params, snapshot) ==
    RangeCheck(params.lo, SnapGetDefault0(snapshot, "turnover_rate"), params.hi)

\* PERatioRule.check / PBRatioRule.check: snapshot first, then akshare. The
\* fetched cell is None (no row, "-", fetch failed), a number, or a value on
\* which float() raises inside the try, which leaves the raw value in place.
RatioRule_check(params, snapshot, key, fetched) ==
    LET snap == SnapGet(snapshot, key)
        ratio == IF snap # Null THEN snap ELSE fetched
    IN IF ratio = Null THEN RuleResult(TRUE, ScoreHalf)
       ELSE RangeCheck(params.lo, ratio, params.hi)

\* ROERule.check
ROERule_check(params, snapshot, fetched) ==
    LET snap == SnapGet(snapshot, "roe")
        roe == IF snap # Null THEN snap ELSE fetched
    IN IF roe = Null THEN RuleResult(TRUE, ScoreHalf)
       ELSE IF ~IsNumber(roe) THEN Raised
       ELSE LET passed == roe.n >= params.lo
            IN RuleResult(passed, IF passed THEN ScoreOne ELSE ScoreZero)

\* rule_class(rule_params).check(stock_context) for one rule configuration;
\* ak[m] is what the akshare fallback yields for metric m
CheckRule(rule_config, snapshot, ak) ==
    LET rule_key == rule_config.rule_key
        params == rule_config.rule_value
    IN IF get_rule_class(rule_key) = "KeyError" THEN Raised
       ELSE IF ~params.is_dict THEN Raised   \* params.get on a str: AttributeError
       ELSE CASE rule_key = "market_cap" ->
                     MarketCapRule_check(params, snapshot, ak["market_cap"])
              [] rule_key = "volume_ratio" -> VolumeRatioRule_check(params, snapshot)
              [] rule_key = "price_change" -> PriceChangeRule_check(params, snapshot)
              [] rule_key = "turnover_rate" -> TurnoverRateRule_check(params, snapshot)
              [] rule_key = "pe_ratio" ->
                     RatioRule_check(params, snapshot, "pe_ratio", ak["pe_ratio"])
              [] rule_key = "pb_ratio" ->
                     RatioRule_check(params, snapshot, "pb_ratio", ak["pb_ratio"])
              [] rule_key = "roe" -> ROERule_check(params, snapshot, ak["roe"])

RECURSIVE RuleLoop(_, _, _, _)

\* variant: the first exception ends the loop, later rules are not evaluated
RuleLoop_AbortsOnError(rules_config, snapshot, ak, i) ==
    IF i = 0
    THEN [rule_results |-> <<>>, total_score |-> 0, tech_score |-> 0,
          fund_score |-> 0, all_passed |-> TRUE]
    ELSE IF \E j \in 1..(i - 1) : CheckRule(rules_config[j], snapshot, ak).raised
    THEN RuleLoop(rules_config, snapshot, ak, i - 1)
    ELSE IF CheckRule(rules_config[i], snapshot, ak).raised
    THEN [RuleLoop(rules_config, snapshot, ak, i - 1) EXCEPT !.all_passed = FALSE]
    ELSE [RuleLoop(rules_config, snapshot, ak, i - 1) EXCEPT
             !.rule_results =
                 Append(@, [rule_key |-> rules_config[i].rule_key,
                            passed |-> CheckRule(rules_config[i], snapshot, ak).passed,
                            score |-> CheckRule(rules_config[i], snapshot, ak).score]),
             !.all_passed = @ /\ CheckRule(rules_config[i], snapshot, ak).passed,
             !.total_score = @ + CheckRule(rules_config[i], snapshot, ak).score]

\* the for-loop of _apply_rules_to_stock over rules_config[1..i]: an exception
\* from get_rule_class or check() appends nothing and clears all_passed
RuleLoop(rules_config, snapshot, ak, i) ==
    IF i = 0
    THEN [rule_results |-> <<>>, total_score |-> 0, tech_score |-> 0,
          fund_score |-> 0, all_passed |-> TRUE]
    ELSE LET acc == RuleLoop(rules_config, snapshot, ak, i - 1)
             rule_key == rules_config[i].rule_key
             result == CheckRule(rules_config[i], snapshot, ak)
         IN IF result.raised
            THEN [acc EXCEPT !.all_passed = FALSE]
            ELSE [rule_results |->
                      Append(acc.rule_results,
                             [rule_key |-> rule_key, passed |-> result.passed,
                              score |-> result.score]),
                  all_passed |-> acc.all_passed /\ result.passed,
                  tech_score |-> acc.tech_score +
                      (IF rule_key \in TECH_RULES THEN result.score ELSE 0),
                  fund_score |-> acc.fund_score +
                      (IF rule_key \notin TECH_RULES /\ rule_key \in FUND_RULES
                       THEN result.score ELSE 0),
                  total_score |-> acc.total_score + result.score]

\* variant: every enabled rule counts for every bucket
CountKeys_AllRules(rules_config, keys) == Len(rules_config)

CountKeys(rules_config, keys) ==
    Cardinality({i \in 1..Len(rules_config) : rules_config[i].rule_key \in keys})

\* a selection gate that lets a positive score override a failed rule
apply_rules_to_stock_ScoreOnly(snapshot_data, rules_config, ak) ==
    LET r == RuleLoop(rules_config, snapshot_data, ak, Len(rules_config))
    IN [is_selected |-> r.all_passed \/ r.total_score > 0,
        tech_score |-> r.tech_score, fund_score |-> r.fund_score,
        total_score |-> r.total_score, rule_results |-> r.rule_results]

\* _apply_rules_to_stock(stock, rules_config): the tuple it returns
apply_rules_to_stock(snapshot_data, rules_config, ak) ==
    LET r == RuleLoop(rules_config, snapshot_data, ak, Len(rules_config))
        num_tech_rules == CountKeys(rules_config, TECH_RULES)
        num_fund_rules == CountKeys(rules_config, FUND_RULES)
    IN [is_selected |-> r.all_passed /\ r.total_score > 0,
        tech_score |-> IF num_tech_rules > 0
                       THEN r.tech_score \div num_tech_rules ELSE r.tech_score,
        fund_score |-> IF num_fund_rules > 0
                       THEN r.fund_score \div num_fund_rules ELSE r.fund_score,
        total_score |-> r.total_score,
        rule_results |-> r.rule_results]

\* ------------------------------------------------------------------------
\* Rule configurations and snapshots the model draws from
\* ------------------------------------------------------------------------

RuleConfig(key, lo, hi) ==
    [rule_key |-> key, rule_value |-> [is_dict |-> TRUE, lo |-> lo, hi |-> hi]]

\* the rows init_rules.py seeds strategy_config with, in sort_order (bounds in
\* half units; hi is unused by one-sided rules)
DefaultRules ==
    << RuleConfig("market_cap", 100, 1000),
       RuleConfig("volume_ratio", 3, 0),
       RuleConfig("price_change", -20, 20),
       RuleConfig("turnover_rate", 4, 40),
       RuleConfig("pe_ratio", 0, 100),
       RuleConfig("pb_ratio", 0, 20),
       RuleConfig("roe", 0, 0) >>

\* rows an operator can store besides the defaults: a key no class is
\* registered under, and volume_ratio with a zero / negative minimum
RuleConfigRows ==
    {DefaultRules[i] : i \in 1..Len(DefaultRules)} \cup
    { RuleConfig("ai_score", 0, 0),
      RuleConfig("volume_ratio", 0, 0),
      RuleConfig("volume_ratio", -2, 0) }

SeqsUpTo(S, n) == UNION {[1..k -> S] : k \in 0..n}

\* strategy_config.uk_rule_key: no two rows of a list share a rule_key
UniqueKeys(lists) ==
    {c \in lists : \A i \in 1..Len(c) : \A j \in 1..Len(c) :
                       c[i].rule_key = c[j].rule_key => i = j}

\* cells a snapshot holds for a metric, and cells the akshare fallback yields
SnapCells(m) ==
    {Absent, Null} \cup
    (IF m = "market_cap" THEN {Num(10), Num(200)} ELSE {Num(-30), Num(10)})
AkCells == {Null, Bad, Num(-30), Num(10)}

UsedMetrics(rules_config) ==
    {MetricOf(rules_config[i].rule_key) : i \in 1..Len(rules_config)} \cap Metrics

\* snapshots that differ only in the metrics the rule list reads
SnapshotsFor(rules_config) ==
    LET U == UsedMetrics(rules_config)
    IN {[m \in Metrics |-> IF m \in U THEN f[m] ELSE Absent] :
           f \in {g \in [U -> UNION {SnapCells(m) : m \in U}] :
                      \A m \in U : g[m] \in SnapCells(m)}}

\* akshare outcomes that differ only where a fallback fetch happens
AkFor(rules_config, snapshot) ==
    LET F == {m \in UsedMetrics(rules_config) :
                 /\ m \in {MetricOf(k) : k \in FetchingRules}
                 /\ SnapGet(snapshot, m) = Null}
    IN {[m \in Metrics |-> IF m \in F THEN f[m] ELSE Null] : f \in [F -> AkCells]}

NoInput == [snapshot |-> [m \in Metrics |-> Absent], rules_config |-> <<>>,
            ak |-> [m \in Metrics |-> Null]]
NoOutput == [done |-> FALSE, is_selected |-> FALSE, tech_score |-> 0,
             fund_score |-> 0, total_score |-> 0, rule_results |-> <<>>]

\* the resolver harness at rest: no query, no answer
NoQuery == [sector |-> <<>>, concept_names |-> {}]
NoMatch == [done |-> FALSE, found |-> FALSE, name |-> <<>>]
\* no generate_picks_api request
NoPicksRun == [pc |-> "idle"]
\* no _fetch_board_constituents_by_code call
NoFetchRun == [pc |-> "idle"]
\* no _get_industry_list call is modelled
NoCacheRun == [pc |-> "idle"]

\* ------------------------------------------------------------------------
\* Collaborators: market data (stock_service), LLM, crawler, database driver
\* ------------------------------------------------------------------------

\* most requests the clients send in one behaviour
MaxRequests == 4
\* number of concurrent request handlers
NumWorkers == 2
\* largest report id a request names (reports are created up to this id)
MaxReports == 2

Workers == 1..NumWorkers
ReportIds == 1..MaxReports
Dates == {"d1"}
Boards == {"b1", "b2"}
Stocks == {"s1", "s2"}
\* step numbers a rerun request may carry: the valid 2..4 and one on each side
StepNumbers == 1..5

\* get_stocks_by_board: the constituents the market data lists for a board
BoardStocks(board) ==
    CASE board = "b1" -> <<"s1", "s2">>
      [] board = "b2" -> <<"s2">>
      [] OTHER -> <<>>

\* get_stock_snapshot: the keys it returns (no volume_ratio, no roe); s1 is
\* inside every default range, s2 has change_pct 15%
MarketSnapshot(stock_code) ==
    [m \in Metrics |->
        CASE m = "volume_ratio" -> Absent
          [] m = "roe" -> Absent
          [] m = "change_pct" -> IF stock_code = "s1" THEN Num(12) ELSE Num(30)
          [] m = "turnover_rate" -> Num(16)
          [] m = "pe_ratio" -> Num(40)
          [] m = "pb_ratio" -> Num(4)
          [] m = "market_cap" -> Num(200)]

Topic(boards) == [related_boards |-> boards]

\* one deterministic set-up of the collaborators
Fixture(crawl, raises, topics, fboards, fsnaps, decoded, rules) ==
    [crawl |-> crawl,                  \* rows the crawl + sync adds to raw_articles
     llm_raises |-> raises,            \* extract_topics_from_articles raises
     llm_topics |-> topics,            \* the topics it returns otherwise
     failing_boards |-> fboards,       \* boards whose constituent fetch fails
     failing_snapshots |-> fsnaps,     \* stocks whose snapshot fetch raises
     json_decoded |-> decoded,         \* driver returns JSON columns as list/dict
     strategy_config |-> rules,        \* enabled strategy_config rows, by sort_order
     ak |-> [m \in Metrics |-> Null]]  \* akshare fallback inside the rules

SelectiveRules == <<DefaultRules[3], DefaultRules[4], DefaultRules[5]>>
OneTopic == <<Topic(<<"b1", "b2">>)>>

Fixtures ==
    { Fixture(1, FALSE, OneTopic, {}, {}, TRUE, SelectiveRules),
      Fixture(0, FALSE, OneTopic, {}, {}, TRUE, SelectiveRules),
      Fixture(1, TRUE, <<>>, {}, {}, TRUE, SelectiveRules),
      Fixture(1, FALSE, <<>>, {}, {}, TRUE, SelectiveRules),
      Fixture(1, FALSE, <<Topic(<<>>)>>, {}, {}, TRUE, SelectiveRules),
      Fixture(1, FALSE, OneTopic, {"b1"}, {}, TRUE, SelectiveRules),
      Fixture(1, FALSE, OneTopic, {}, {"s2"}, TRUE, SelectiveRules),
      Fixture(1, FALSE, OneTopic, {}, {"s1"}, TRUE, SelectiveRules),
      Fixture(1, FALSE, OneTopic, {}, {}, FALSE, SelectiveRules),
      Fixture(1, FALSE, OneTopic, {}, {}, TRUE, <<>>),
      Fixture(1, FALSE, OneTopic, {}, {}, TRUE,
              <<DefaultRules[3], RuleConfig("ai_score", 0, 0)>>) }

\* ------------------------------------------------------------------------
\* Tables (migrate_v2_stock_picker.py) and queries (pipeline_service.py)
\* ------------------------------------------------------------------------

RowsOf(table, report_id) == {x \in table : x.report_id = report_id}
ReportExists(report_id) == \E x \in reports : x.id = report_id
ReportById(report_id) == CHOOSE x \in reports : x.id = report_id

\* rows of a result set in primary-key order
RECURSIVE ById(_)
ById(rows) ==
    IF rows = {} THEN <<>>
    ELSE LET first == CHOOSE x \in rows : \A y \in rows : x.id <= y.id
         IN <<first>> \o ById(rows \ {first})

\* a sequence of column records inserted one by one: ids from the counter on
Inserted(cols, first_id) ==
    {[c \in DOMAIN cols[k] \cup {"id"} |->
         IF c = "id" THEN first_id + k - 1 ELSE cols[k][c]] : k \in 1..Len(cols)}

\* get_report_by_date: the id of the report of that date, 0 for None
get_report_by_date(report_date) ==
    IF \E x \in reports : x.report_date = report_date
    THEN (CHOOSE x \in reports : x.report_date = report_date).id
    ELSE 0

\* variant: a reports table without uk_report_date
CanInsertReport_NoUniqueKey(report_date) == TRUE

\* INSERT INTO reports: uk_report_date rejects a second row of the same date
CanInsertReport(report_date) == \A x \in reports : x.report_date # report_date

\* UPDATE reports SET status: no row, no effect
update_report_status(rs, report_id, status) ==
    {IF x.id = report_id THEN [x EXCEPT !.status = status] ELSE x : x \in rs}

\* get_report_topics: related_boards is kept only when the driver hands back a list
get_report_topics(report_id) ==
    LET rows == ById(RowsOf(hot_topics, report_id))
    IN [k \in 1..Len(rows) |->
           [id |-> rows[k].id,
            related_boards |-> IF env.json_decoded THEN rows[k].related_boards
                               ELSE <<>>]]

\* get_report_pool1: snapshot_data is kept only when the driver hands back a dict
get_report_pool1(report_id) ==
    LET rows == ById(RowsOf(stock_pool_1, report_id))
    IN [k \in 1..Len(rows) |->
           [rows[k] EXCEPT !.snapshot_data =
               IF env.json_decoded THEN rows[k].snapshot_data
               ELSE [m \in Metrics |-> Absent]]]

\* the enabled strategy_config rows as the handlers read them: rule_value is a
\* dict only when the driver decodes JSON
enabled_rules ==
    [k \in 1..Len(env.strategy_config) |->
        [env.strategy_config[k] EXCEPT !.rule_value.is_dict = env.json_decoded]]

\* ------------------------------------------------------------------------
\* Stage functions (pipeline_service.py)
\* ------------------------------------------------------------------------

\* step1_add_articles with one article: the FK to reports rejects the insert
\* for a report that does not exist
step1_add_articles(report_id) ==
    IF ~ReportExists(report_id) THEN [raised |-> TRUE, rows |-> {}]
    ELSE [raised |-> FALSE,
          rows |-> Inserted(<<[report_id |-> report_id]>>, nextId.raw_articles)]

\* step2_extract_topics: no articles, no LLM call; an LLM failure escapes
step2_extract_topics(report_id) ==
    IF RowsOf(raw_articles, report_id) = {}
    THEN [raised |-> FALSE, topics |-> <<>>, rows |-> {}]
    ELSE IF env.llm_raises
    THEN [raised |-> TRUE, topics |-> <<>>, rows |-> {}]
    ELSE [raised |-> FALSE, topics |-> env.llm_topics,
          rows |-> Inserted(
              [k \in 1..Len(env.llm_topics) |->
                  [report_id |-> report_id,
                   related_boards |-> env.llm_topics[k].related_boards]],
              nextId.hot_topics)]

\* the stocks of one board saved before a snapshot failure leaves the board's
\* try block
RECURSIVE SavedOfBoard(_, _)
SavedOfBoard(stocks, i) ==
    IF i > Len(stocks) THEN <<>>
    ELSE IF stocks[i] \in env.failing_snapshots THEN <<>>
    ELSE <<stocks[i]>> \o SavedOfBoard(stocks, i + 1)

\* get_stocks_by_board as step 3 sees it: [] when the fetch fails
get_stocks_by_board(board_name) ==
    IF board_name \in env.failing_boards THEN <<>> ELSE BoardStocks(board_name)

\* the Pool-1 columns step 3 saves for boards j.. of one topic
RECURSIVE SavedOfTopic(_, _, _)
SavedOfTopic(report_id, topic, j) ==
    IF j > Len(topic.related_boards) THEN <<>>
    ELSE LET board_name == topic.related_boards[j]
             saved == SavedOfBoard(get_stocks_by_board(board_name), 1)
         IN [k \in 1..Len(saved) |->
                [report_id |-> report_id, stock_code |-> saved[k],
                 related_topic_id |-> topic.id, match_reason |-> board_name,
                 snapshot_data |-> MarketSnapshot(saved[k])]]
            \o SavedOfTopic(report_id, topic, j + 1)

RECURSIVE SavedOfTopics(_, _, _)
SavedOfTopics(report_id, topics, t) ==
    IF t > Len(topics) THEN <<>>
    ELSE SavedOfTopic(report_id, topics[t], 1) \o SavedOfTopics(report_id, topics, t + 1)

\* step3_get_board_stocks: every topic, every related board, every constituent
step3_get_board_stocks(report_id) ==
    LET cols == SavedOfTopics(report_id, get_report_topics(report_id), 1)
    IN [stock_count |-> Len(cols), rows |-> Inserted(cols, nextId.stock_pool_1)]

\* the Pool-2 columns step 4 saves for one Pool-1 entry and its evaluation r
Pool2Row(stock, r) ==
    [report_id |-> stock.report_id, pool_1_id |-> stock.id,
     stock_code |-> stock.stock_code,
     tech_score |-> r.tech_score, fund_score |-> r.fund_score,
     total_score |-> r.total_score, rule_results |-> r.rule_results,
     is_selected |-> r.is_selected]

\* the for-loop of step4_apply_rules over the Pool-1 entries read
Pool2Rows(pool1_stocks, rules_config) ==
    [k \in 1..Len(pool1_stocks) |->
        Pool2Row(pool1_stocks[k],
                 apply_rules_to_stock(pool1_stocks[k].snapshot_data,
                                      rules_config, env.ak))]

\* what step 4 leaves: the rows inserted and the number of selected ones
Step4Result(cols) ==
    [selected_count |-> Cardinality({k \in 1..Len(cols) : cols[k].is_selected}),
     rows |-> Inserted(cols, nextId.stock_pool_2)]

\* step4_apply_rules: one Pool-2 row per Pool-1 row read
step4_apply_rules(report_id, rules_config) ==
    Step4Result(Pool2Rows(get_report_pool1(report_id), rules_config))

\* ------------------------------------------------------------------------
\* Request handlers
\* ------------------------------------------------------------------------

Idle == [n |-> 0, op |-> "none", pc |-> "idle", report_id |-> 0, report_date |-> "none",
         step_number |-> 0, resp |-> 0, status |-> "none", error |-> "none",
         steps |-> <<>>]

\* request number n of the server's life, as received
Request(op, report_id, report_date, step_number) ==
    [Idle EXCEPT !.n = nreq + 1, !.op = op, !.report_id = report_id,
                 !.report_date = report_date, !.step_number = step_number]

\* a handler takes a new request when it serves none
Free(w) == h[w].pc \in {"idle", "done"} /\ nreq < MaxRequests

Respond(req, code) == [req EXCEPT !.pc = "done", !.resp = code]

\* POST /api/reports: create_report, duplicate date -> IntegrityError -> 500
CreateReport(w, report_date) ==
    /\ Free(w)
    /\ nreq' = nreq + 1
    /\ LET req == Request("create_report", 0, report_date, 0)
       IN IF CanInsertReport(report_date)
          THEN /\ reports' = reports \cup
                    {[id |-> nextId.reports, report_date |-> report_date,
                      status |-> "pending"]}
               /\ nextId' = [nextId EXCEPT !.reports = @ + 1]
               /\ h' = [h EXCEPT ![w] =
                           Respond([req EXCEPT !.report_id = nextId.reports], 200)]
          ELSE /\ h' = [h EXCEPT ![w] = Respond(req, 500)]
               /\ UNCHANGED <<reports, nextId>>
    /\ UNCHANGED <<raw_articles, hot_topics, stock_pool_1, stock_pool_2, env,
                   background_tasks, harnessVars>>

\* DELETE /api/reports/{id}: the foreign keys cascade to every child table
DeleteReport(w, report_id) ==
    /\ Free(w)
    /\ nreq' = nreq + 1
    /\ reports' = {x \in reports : x.id # report_id}
    /\ raw_articles' = raw_articles \ RowsOf(raw_articles, report_id)
    /\ hot_topics' = hot_topics \ RowsOf(hot_topics, report_id)
    /\ stock_pool_1' = stock_pool_1 \ RowsOf(stock_pool_1, report_id)
    /\ stock_pool_2' = stock_pool_2 \ RowsOf(stock_pool_2, report_id)
    /\ h' = [h EXCEPT ![w] = Respond(Request("delete_report", report_id, "none", 0), 200)]
    /\ UNCHANGED <<nextId, env, background_tasks, harnessVars>>

\* POST /api/pipeline/step1-articles with one article
AddArticles(w, report_id) ==
    /\ Free(w)
    /\ nreq' = nreq + 1
    /\ LET r == step1_add_articles(report_id)
           req == Request("step1_add_articles", report_id, "none", 0)
       IN /\ raw_articles' = raw_articles \cup r.rows
          /\ nextId' = [nextId EXCEPT !.raw_articles = @ + Cardinality(r.rows)]
          /\ h' = [h EXCEPT ![w] = Respond(req, IF r.raised THEN 500 ELSE 200)]
    /\ UNCHANGED <<reports, hot_topics, stock_pool_1, stock_pool_2, env,
                   background_tasks, harnessVars>>

\* POST /api/pipeline/{id}/step2-topics
ExtractTopics(w, report_id) ==
    /\ Free(w)
    /\ nreq' = nreq + 1
    /\ LET r == step2_extract_topics(report_id)
           req == Request("step2_extract_topics", report_id, "none", 0)
       IN /\ hot_topics' = hot_topics \cup r.rows
          /\ nextId' = [nextId EXCEPT !.hot_topics = @ + Cardinality(r.rows)]
          /\ h' = [h EXCEPT ![w] = Respond(req, IF r.raised THEN 500 ELSE 200)]
    /\ UNCHANGED <<reports, raw_articles, stock_pool_1, stock_pool_2, env,
                   background_tasks, harnessVars>>

\* POST /api/pipeline/{id}/step3-pool1
GetBoardStocks(w, report_id) ==
    /\ Free(w)
    /\ nreq' = nreq + 1
    /\ LET r == step3_get_board_stocks(report_id)
           req == Request("step3_get_board_stocks", report_id, "none", 0)
       IN /\ stock_pool_1' = stock_pool_1 \cup r.rows
          /\ nextId' = [nextId EXCEPT !.stock_pool_1 = @ + Cardinality(r.rows)]
          /\ h' = [h EXCEPT ![w] = Respond(req, 200)]
    /\ UNCHANGED <<reports, raw_articles, hot_topics, stock_pool_2, env,
                   background_tasks, harnessVars>>

\* POST /api/pipeline/{id}/step4-pool2
ApplyRulesStep(w, report_id) ==
    /\ Free(w)
    /\ nreq' = nreq + 1
    /\ LET r == step4_apply_rules(report_id, enabled_rules)
           req == Request("step4_apply_rules", report_id, "none", 0)
       IN /\ stock_pool_2' = stock_pool_2 \cup r.rows
          /\ nextId' = [nextId EXCEPT !.stock_pool_2 = @ + Cardinality(r.rows)]
          /\ h' = [h EXCEPT ![w] = Respond(req, 200)]
    /\ UNCHANGED <<reports, raw_articles, hot_topics, stock_pool_1, env,
                   background_tasks, harnessVars>>

\* the names api/pipeline.py can resolve on the module services.pipeline_service
pipeline_service_names ==
    {"get_report_by_date", "create_report", "update_report_status",
     "get_report_articles", "get_report_topics", "get_report_pool1",
     "get_report_pool2", "step1_add_articles", "step2_extract_topics",
     "step3_get_board_stocks", "step4_apply_rules", "run_full_pipeline",
     "get_pipeline_nodes"}

\* clear_step_data (pipeline_repository.py): the tables after the deletes
clear_step_data(report_id, step_number) ==
    [stock_pool_2 |-> IF step_number <= 4
                      THEN stock_pool_2 \ RowsOf(stock_pool_2, report_id)
                      ELSE stock_pool_2,
     stock_pool_1 |-> IF step_number <= 3
                      THEN stock_pool_1 \ RowsOf(stock_pool_1, report_id)
                      ELSE stock_pool_1,
     hot_topics |-> IF step_number <= 2
                    THEN hot_topics \ RowsOf(hot_topics, report_id)
                    ELSE hot_topics]

\* variant: the deletes run before the step number is validated
rerun_step_ClearFirst(w, report_id, step_number) ==
    /\ Free(w)
    /\ nreq' = nreq + 1
    /\ LET req == Request("rerun_step", report_id, "none", step_number)
           cleared == clear_step_data(report_id, step_number)
       IN /\ stock_pool_2' = cleared.stock_pool_2
          /\ stock_pool_1' = cleared.stock_pool_1
          /\ hot_topics' = cleared.hot_topics
          /\ IF step_number < 2 \/ step_number > 4
             THEN /\ h' = [h EXCEPT ![w] = Respond(req, 400)]
                  /\ UNCHANGED background_tasks
             ELSE /\ background_tasks' = background_tasks \cup
                        {[n |-> nreq + 1, report_id |-> report_id,
                          step_number |-> step_number]}
                  /\ h' = [h EXCEPT ![w] = Respond(req, 200)]
    /\ UNCHANGED <<reports, raw_articles, nextId, env, harnessVars>>

\* POST /api/pipeline/{id}/rerun/{step}: 400 for a step outside 2..4, 404 for a
\* missing report; the lookup of clear_step_data on pipeline_service raises
\* AttributeError when the module has no such name, which the handler turns
\* into 500 before anything is deleted or scheduled
rerun_step(w, report_id, step_number) ==
    /\ Free(w)
    /\ nreq' = nreq + 1
    /\ LET req == Request("rerun_step", report_id, "none", step_number)
       IN IF step_number < 2 \/ step_number > 4
          THEN /\ h' = [h EXCEPT ![w] = Respond(req, 400)]
               /\ UNCHANGED <<hot_topics, stock_pool_1, stock_pool_2, background_tasks>>
          ELSE IF ~ReportExists(report_id)
          THEN /\ h' = [h EXCEPT ![w] = Respond(req, 404)]
               /\ UNCHANGED <<hot_topics, stock_pool_1, stock_pool_2, background_tasks>>
          ELSE IF "clear_step_data" \notin pipeline_service_names
          THEN /\ h' = [h EXCEPT ![w] =
                           Respond([req EXCEPT !.error = "AttributeError"], 500)]
               /\ UNCHANGED <<hot_topics, stock_pool_1, stock_pool_2, background_tasks>>
          ELSE LET cleared == clear_step_data(report_id, step_number)
               IN /\ stock_pool_2' = cleared.stock_pool_2
                  /\ stock_pool_1' = cleared.stock_pool_1
                  /\ hot_topics' = cleared.hot_topics
                  /\ background_tasks' = background_tasks \cup
                        {[n |-> nreq + 1, report_id |-> report_id,
                          step_number |-> step_number]}
                  /\ h' = [h EXCEPT ![w] = Respond(req, 200)]
    /\ UNCHANGED <<reports, raw_articles, nextId, env, harnessVars>>

\* run_step_task: the single stage step_number, outside any request; an
\* exception of the stage is logged and nothing else. With
\* pipeline_service_names as it stands no task is ever scheduled, so this step
\* is not part of Next; the rerun harness runs it.
run_step_task(task) ==
    /\ task \in background_tasks
    /\ background_tasks' = background_tasks \ {task}
    /\ CASE task.step_number = 2 ->
              LET r == step2_extract_topics(task.report_id)
              IN /\ hot_topics' = hot_topics \cup r.rows
                 /\ nextId' = [nextId EXCEPT !.hot_topics = @ + Cardinality(r.rows)]
                 /\ UNCHANGED <<stock_pool_1, stock_pool_2>>
         [] task.step_number = 3 ->
              LET r == step3_get_board_stocks(task.report_id)
              IN /\ stock_pool_1' = stock_pool_1 \cup r.rows
                 /\ nextId' = [nextId EXCEPT !.stock_pool_1 = @ + Cardinality(r.rows)]
                 /\ UNCHANGED <<hot_topics, stock_pool_2>>
         [] OTHER ->
              LET r == step4_apply_rules(task.report_id, enabled_rules)
              IN /\ stock_pool_2' = stock_pool_2 \cup r.rows
                 /\ nextId' = [nextId EXCEPT !.stock_pool_2 = @ + Cardinality(r.rows)]
                 /\ UNCHANGED <<hot_topics, stock_pool_1>>
    /\ UNCHANGED <<reports, raw_articles, env, h, nreq, harnessVars>>

\* ------------------------------------------------------------------------
\* POST /api/reports/{id}/generate and run_full_pipeline, one step per await
\* ------------------------------------------------------------------------

\* run_full_pipeline returns result with status error; the endpoint answers 200
ReturnError(w, error) ==
    [h[w] EXCEPT !.pc = "done", !.resp = 200, !.status = "error", !.error = error]

\* generate_report: SELECT report_date of the report, 404 when there is none
generate_report(w, report_id) ==
    /\ Free(w)
    /\ nreq' = nreq + 1
    /\ LET req == Request("generate_report", report_id, "none", 0)
       IN IF ~ReportExists(report_id)
          THEN h' = [h EXCEPT ![w] = Respond(req, 404)]
          ELSE h' = [h EXCEPT ![w] =
                        [req EXCEPT !.pc = "lookup", !.report_id = 0,
                                    !.report_date = ReportById(report_id).report_date]]
    /\ UNCHANGED <<tables, env, background_tasks, harnessVars>>

\* run_full_pipeline: report = get_report_by_date(report_date)
PipelineLookup(w) ==
    /\ h[w].pc = "lookup"
    /\ LET report == get_report_by_date(h[w].report_date)
       IN h' = [h EXCEPT ![w] =
                   IF report = 0 THEN [@ EXCEPT !.pc = "create"]
                   ELSE [@ EXCEPT !.pc = "processing", !.report_id = report]]
    /\ UNCHANGED <<tables, env, background_tasks, nreq, harnessVars>>

\* report is None: create_report; the duplicate-key error of uk_report_date is
\* raised outside run_full_pipeline's try and reaches generate_report's
\* handler, which answers 500
PipelineCreate(w) ==
    /\ h[w].pc = "create"
    /\ IF CanInsertReport(h[w].report_date)
       THEN /\ reports' = reports \cup
                 {[id |-> nextId.reports, report_date |-> h[w].report_date,
                   status |-> "pending"]}
            /\ nextId' = [nextId EXCEPT !.reports = @ + 1]
            /\ h' = [h EXCEPT ![w] =
                        [@ EXCEPT !.pc = "processing", !.report_id = nextId.reports]]
       ELSE /\ h' = [h EXCEPT ![w] =
                        [@ EXCEPT !.pc = "done", !.resp = 500,
                                  !.error = "IntegrityError 1062"]]
            /\ UNCHANGED <<reports, nextId>>
    /\ UNCHANGED <<raw_articles, hot_topics, stock_pool_1, stock_pool_2, env,
                   background_tasks, nreq, harnessVars>>

\* update_report_status(report_id, "processing"), result.status = "processing"
PipelineProcessing(w) ==
    /\ h[w].pc = "processing"
    /\ reports' = update_report_status(reports, h[w].report_id, "processing")
    /\ h' = [h EXCEPT ![w] = [@ EXCEPT !.pc = "stage1", !.status = "processing"]]
    /\ UNCHANGED <<raw_articles, hot_topics, stock_pool_1, stock_pool_2, nextId,
                   env, background_tasks, nreq, harnessVars>>

\* variant: stage 1 hands over to stage 3
PipelineStage1_SkipsStage2(w) ==
    /\ h[w].pc = "stage1"
    /\ h' = [h EXCEPT ![w] = [@ EXCEPT !.pc = "stage3", !.steps = Append(@, 1)]]
    /\ UNCHANGED <<tables, env, background_tasks, nreq, harnessVars>>

\* variant: stage 1 syncs the crawled articles whether or not the report has any
PipelineStage1_AlwaysSyncs(w) ==
    /\ h[w].pc = "stage1"
    /\ LET synced == Inserted([k \in 1..env.crawl |-> [report_id |-> h[w].report_id]],
                              nextId.raw_articles)
       IN /\ raw_articles' = raw_articles \cup synced
          /\ nextId' = [nextId EXCEPT !.raw_articles = @ + Cardinality(synced)]
          /\ h' = [h EXCEPT ![w] = [@ EXCEPT !.pc = "stage2", !.steps = Append(@, 1)]]
    /\ UNCHANGED <<reports, hot_topics, stock_pool_1, stock_pool_2, env,
                   background_tasks, nreq, harnessVars>>

\* stage 1: articles already there, or crawl and sync them into raw_articles;
\* none after that -> error
PipelineStage1(w) ==
    /\ h[w].pc = "stage1"
    /\ LET report_id == h[w].report_id
           present == RowsOf(raw_articles, report_id) # {}
           synced == IF present THEN {}
                     ELSE Inserted([k \in 1..env.crawl |-> [report_id |-> report_id]],
                                   nextId.raw_articles)
       IN IF synced # {} /\ ~ReportExists(report_id)
          THEN \* the insert violates the foreign key: except branch
               /\ h' = [h EXCEPT ![w] = ReturnError(w, "IntegrityError 1452")]
               /\ UNCHANGED <<reports, raw_articles, nextId>>
          ELSE /\ raw_articles' = raw_articles \cup synced
               /\ nextId' = [nextId EXCEPT !.raw_articles = @ + Cardinality(synced)]
               /\ IF ~present /\ synced = {}
                  THEN /\ reports' = update_report_status(reports, report_id, "error")
                       /\ h' = [h EXCEPT ![w] =
                                   [ReturnError(w, "No articles found")
                                       EXCEPT !.steps = Append(@, 1)]]
                  ELSE /\ h' = [h EXCEPT ![w] =
                                   [@ EXCEPT !.pc = "stage2", !.steps = Append(@, 1)]]
                       /\ UNCHANGED reports
    /\ UNCHANGED <<hot_topics, stock_pool_1, stock_pool_2, env, background_tasks, nreq,
                   harnessVars>>

\* variant: stage 2 swallows the LLM failure and hands over to stage 3
PipelineStage2_SwallowsFailure(w) ==
    /\ h[w].pc = "stage2"
    /\ LET r == step2_extract_topics(h[w].report_id)
       IN /\ hot_topics' = hot_topics \cup r.rows
          /\ nextId' = [nextId EXCEPT !.hot_topics = @ + Cardinality(r.rows)]
          /\ h' = [h EXCEPT ![w] = [@ EXCEPT !.pc = "stage3", !.steps = Append(@, 2)]]
    /\ UNCHANGED <<reports, raw_articles, stock_pool_1, stock_pool_2, env,
                   background_tasks, nreq, harnessVars>>

\* stage 2: step2_extract_topics; an LLM failure reaches the except branch, an
\* empty topic list is an error
PipelineStage2(w) ==
    /\ h[w].pc = "stage2"
    /\ LET report_id == h[w].report_id
           r == step2_extract_topics(report_id)
       IN IF r.raised
          THEN /\ reports' = update_report_status(reports, report_id, "error")
               /\ h' = [h EXCEPT ![w] = ReturnError(w, "LLMError")]
               /\ UNCHANGED <<hot_topics, nextId>>
          ELSE /\ hot_topics' = hot_topics \cup r.rows
               /\ nextId' = [nextId EXCEPT !.hot_topics = @ + Cardinality(r.rows)]
               /\ IF Len(r.topics) = 0
                  THEN /\ reports' = update_report_status(reports, report_id, "error")
                       /\ h' = [h EXCEPT ![w] =
                                   [ReturnError(w, "No topics extracted")
                                       EXCEPT !.steps = Append(@, 2)]]
                  ELSE /\ h' = [h EXCEPT ![w] =
                                   [@ EXCEPT !.pc = "stage3", !.steps = Append(@, 2)]]
                       /\ UNCHANGED reports
    /\ UNCHANGED <<raw_articles, stock_pool_1, stock_pool_2, env, background_tasks, nreq,
                   harnessVars>>

\* variant: stage 3 hands over to stage 4 whatever the number of stocks
PipelineStage3_ContinuesOnEmpty(w) ==
    /\ h[w].pc = "stage3"
    /\ LET r == step3_get_board_stocks(h[w].report_id)
       IN /\ stock_pool_1' = stock_pool_1 \cup r.rows
          /\ nextId' = [nextId EXCEPT !.stock_pool_1 = @ + Cardinality(r.rows)]
          /\ h' = [h EXCEPT ![w] = [@ EXCEPT !.pc = "stage4", !.steps = Append(@, 3)]]
    /\ UNCHANGED <<reports, raw_articles, hot_topics, stock_pool_2, env,
                   background_tasks, nreq, harnessVars>>

\* stage 3: step3_get_board_stocks; zero stocks is an error
PipelineStage3(w) ==
    /\ h[w].pc = "stage3"
    /\ LET report_id == h[w].report_id
           r == step3_get_board_stocks(report_id)
       IN /\ stock_pool_1' = stock_pool_1 \cup r.rows
          /\ nextId' = [nextId EXCEPT !.stock_pool_1 = @ + Cardinality(r.rows)]
          /\ IF r.stock_count = 0
             THEN /\ reports' = update_report_status(reports, report_id, "error")
                  /\ h' = [h EXCEPT ![w] =
                              [ReturnError(w, "No stocks found")
                                  EXCEPT !.steps = Append(@, 3)]]
             ELSE /\ h' = [h EXCEPT ![w] =
                              [@ EXCEPT !.pc = "stage4", !.steps = Append(@, 3)]]
                  /\ UNCHANGED reports
    /\ UNCHANGED <<raw_articles, hot_topics, stock_pool_2, env, background_tasks, nreq,
                   harnessVars>>

\* variant: stage 4 treats an empty selection as an error
PipelineStage4_EmptySelectionIsError(w) ==
    /\ h[w].pc = "stage4"
    /\ LET report_id == h[w].report_id
           r == step4_apply_rules(report_id, enabled_rules)
           status == IF r.selected_count = 0 THEN "error" ELSE "completed"
       IN /\ stock_pool_2' = stock_pool_2 \cup r.rows
          /\ nextId' = [nextId EXCEPT !.stock_pool_2 = @ + Cardinality(r.rows)]
          /\ reports' = update_report_status(reports, report_id, status)
          /\ h' = [h EXCEPT ![w] =
                      [@ EXCEPT !.pc = "done", !.resp = 200, !.status = status,
                                !.steps = Append(@, 4)]]
    /\ UNCHANGED <<raw_articles, hot_topics, stock_pool_1, env, background_tasks,
                   nreq, harnessVars>>

\* variant: stage 4 returns completed without writing the status
PipelineStage4_KeepsProcessing(w) ==
    /\ h[w].pc = "stage4"
    /\ LET report_id == h[w].report_id
           r == step4_apply_rules(report_id, enabled_rules)
       IN /\ stock_pool_2' = stock_pool_2 \cup r.rows
          /\ nextId' = [nextId EXCEPT !.stock_pool_2 = @ + Cardinality(r.rows)]
          /\ h' = [h EXCEPT ![w] =
                      [@ EXCEPT !.pc = "done", !.resp = 200, !.status = "completed",
                                !.steps = Append(@, 4)]]
    /\ UNCHANGED <<reports, raw_articles, hot_topics, stock_pool_1, env,
                   background_tasks, nreq, harnessVars>>

\* stage 4: the enabled rules, step4_apply_rules, status completed
PipelineStage4(w) ==
    /\ h[w].pc = "stage4"
    /\ LET report_id == h[w].report_id
           r == step4_apply_rules(report_id, enabled_rules)
       IN /\ stock_pool_2' = stock_pool_2 \cup r.rows
          /\ nextId' = [nextId EXCEPT !.stock_pool_2 = @ + Cardinality(r.rows)]
          /\ reports' = update_report_status(reports, report_id, "completed")
          /\ h' = [h EXCEPT ![w] =
                      [@ EXCEPT !.pc = "done", !.resp = 200, !.status = "completed",
                                !.steps = Append(@, 4)]]
    /\ UNCHANGED <<raw_articles, hot_topics, stock_pool_1, env, background_tasks, nreq,
                   harnessVars>>

\* ------------------------------------------------------------------------
\* The application
\* ------------------------------------------------------------------------

NoRows ==
    /\ reports = {} /\ raw_articles = {} /\ hot_topics = {}
    /\ stock_pool_1 = {} /\ stock_pool_2 = {}
    /\ nextId = [reports |-> 1, raw_articles |-> 1, hot_topics |-> 1,
                 stock_pool_1 |-> 1, stock_pool_2 |-> 1]
    /\ background_tasks = {}
    /\ h = [w \in Workers |-> Idle]
    /\ nreq = 0

\* the state after the migration and the server start: empty tables, idle handlers
Init ==
    /\ NoRows
    /\ env \in Fixtures
    /\ ruleIn = NoInput
    /\ ruleOut = NoOutput
    /\ matchIn = NoQuery
    /\ matchOut = NoMatch
    /\ picksRun = NoPicksRun
    /\ fetchRun = NoFetchRun
    /\ cacheRun = NoCacheRun

Next ==
    \/ \E w \in Workers, report_date \in Dates : CreateReport(w, report_date)
    \/ \E w \in Workers, report_id \in ReportIds : DeleteReport(w, report_id)
    \/ \E w \in Workers, report_id \in ReportIds : AddArticles(w, report_id)
    \/ \E w \in Workers, report_id \in ReportIds : ExtractTopics(w, report_id)
    \/ \E w \in Workers, report_id \in ReportIds : GetBoardStocks(w, report_id)
    \/ \E w \in Workers, report_id \in ReportIds : ApplyRulesStep(w, report_id)
    \/ \E w \in Workers, report_id \in ReportIds, step_number \in StepNumbers :
          rerun_step(w, report_id, step_number)
    \/ \E w \in Workers, report_id \in ReportIds : generate_report(w, report_id)
    \/ \E w \in Workers : PipelineLookup(w)
    \/ \E w \in Workers : PipelineCreate(w)
    \/ \E w \in Workers : PipelineProcessing(w)
    \/ \E w \in Workers : PipelineStage1(w)
    \/ \E w \in Workers : PipelineStage2(w)
    \/ \E w \in Workers : PipelineStage3(w)
    \/ \E w \in Workers : PipelineStage4(w)

Spec == Init /\ [][Next]_vars

\* ------------------------------------------------------------------------
\* Board-name resolver (script.py, _match_concept_name)
\* ------------------------------------------------------------------------

\* the code points str.strip() removes
Whitespace ==
    {9, 10, 11, 12, 13, 28, 29, 30, 31, 32, 133, 160, 5760, 8232, 8233, 8239,
     8287, 12288} \cup (8192..8202)

RECURSIVE lstrip(_)
lstrip(s) ==
    IF s # <<>> /\ Head(s) \in Whitespace THEN lstrip(Tail(s)) ELSE s

RECURSIVE rstrip(_)
rstrip(s) ==
    IF s # <<>> /\ s[Len(s)] \in Whitespace
    THEN rstrip(SubSeq(s, 1, Len(s) - 1)) ELSE s

\* (sector or "").strip()
strip(s) == rstrip(lstrip(s))

\* a in b for strings
IsSubstring(a, b) ==
    \E i \in 0..(Len(b) - Len(a)) : SubSeq(b, i + 1, i + Len(a)) = a

\* a < b for strings: code point by code point, a proper prefix first
StrLess(a, b) ==
    \E k \in 1..((IF Len(a) <= Len(b) THEN Len(a) ELSE Len(b)) + 1) :
        /\ \A j \in 1..(k - 1) : a[j] = b[j]
        /\ IF k <= Len(a) /\ k <= Len(b) THEN a[k] < b[k]
           ELSE k > Len(a) /\ k <= Len(b)

\* sort key (len(n), n)
ShortestFirst(a, b) ==
    Len(a) < Len(b) \/ (Len(a) = Len(b) /\ StrLess(a, b))

\* sort key (-len(n), n)
LongestFirst(a, b) ==
    Len(a) > Len(b) \/ (Len(a) = Len(b) /\ StrLess(a, b))

\* contains[0] after contains.sort(key=lambda n: (len(n), n))
ShortestOf(names) ==
    CHOOSE n \in names : \A m \in names \ {n} : ShortestFirst(n, m)

\* contained[0] after contained.sort(key=lambda n: (-len(n), n))
LongestOf(names) ==
    CHOOSE n \in names : \A m \in names \ {n} : LongestFirst(n, m)

\* the function's results: a name, or None
Matched(name) == [found |-> TRUE, name |-> name]
None == [found |-> FALSE, name |-> <<>>]

\* COMMON_SECTOR_ALIASES, every string as the sequence of its code points
COMMON_SECTOR_ALIASES ==
    <<
       \* key 1: artificial intelligence, 9 names
       [key |-> <<20154, 24037, 26234, 33021>>,
        names |->
          << <<65, 73, 24212, 29992>>,
             <<65, 73, 31639, 21147>>,
             <<65, 73, 26381, 21153, 22120>>,
             <<65, 73, 33455, 29255>>,
             <<65, 73, 35821, 26009>>,
             <<65, 73, 25163, 26426>>,
             <<65, 73, 32, 80, 67>>,
             <<67, 104, 97, 116, 71, 80, 84, 27010, 24565>>,
             <<65, 73, 71, 67, 27010, 24565>> >>],
       \* key 2: gold, 2 names
       [key |-> <<40644, 37329>>,
        names |->
          << <<40644, 37329, 27010, 24565>>,
             <<40644, 37329>> >>],
       \* key 3: photovoltaics, 7 names
       [key |-> <<20809, 20239>>,
        names |->
          << <<20809, 20239, 27010, 24565>>,
             <<20809, 20239, 35774, 22791>>,
             <<84, 79, 80, 67, 111, 110, 30005, 27744>>,
             <<72, 74, 84, 30005, 27744>>,
             <<72, 73, 84, 30005, 27744>>,
             <<38041, 38043, 30719, 30005, 27744>>,
             <<66, 67, 30005, 27744>> >>],
       \* key 4: chips, 6 names
       [key |-> <<33455, 29255>>,
        names |->
          << <<33455, 29255>>,
             <<22269, 20135, 33455, 29255>>,
             <<20808, 36827, 23553, 35013>>,
             <<23384, 20648, 33455, 29255>>,
             <<77, 67, 85, 33455, 29255>>,
             <<20809, 21051, 26426>> >>],
       \* key 5: defence industry, 3 names
       [key |-> <<20891, 24037>>,
        names |->
          << <<20891, 24037>>,
             <<20891, 27665, 34701, 21512>>,
             <<22269, 38450, 20891, 24037>> >>],
       \* key 6: robots, 3 names
       [key |-> <<26426, 22120, 20154>>,
        names |->
          << <<26426, 22120, 20154, 27010, 24565>>,
             <<20154, 24418, 26426, 22120, 20154>>,
             <<24037, 19994, 27597, 26426>> >>],
       \* key 7: computing power, 3 names
       [key |-> <<31639, 21147>>,
        names |->
          << <<65, 73, 31639, 21147>>,
             <<31639, 21147, 31199, 36161>>,
             <<25968, 25454, 20013, 24515>> >>],
       \* key 8: new-energy vehicles, 4 names
       [key |-> <<26032, 33021, 28304, 36710>>,
        names |->
          << <<26032, 33021, 28304, 27773, 36710>>,
             <<26032, 33021, 28304, 36710>>,
             <<38146, 30005, 27744, 27010, 24565>>,
             <<22266, 24577, 30005, 27744>> >>]
    >>

\* COMMON_SECTOR_ALIASES.get(s): the candidate list of the key, <<>> for None
AliasesGet(s) ==
    IF \E k \in 1..Len(COMMON_SECTOR_ALIASES) : COMMON_SECTOR_ALIASES[k].key = s
    THEN COMMON_SECTOR_ALIASES[
             CHOOSE k \in 1..Len(COMMON_SECTOR_ALIASES) :
                 COMMON_SECTOR_ALIASES[k].key = s].names
    ELSE <<>>

\* the least element of a non-empty set of list positions
FirstPosition(positions) == CHOOSE k \in positions : \A j \in positions : k <= j

\* a variant that sorts the contained names like the containing ones
SubstringMatch_ShortestContained(s, concept_names) ==
    LET contains == {n \in concept_names : IsSubstring(s, n)}
        contained == {n \in concept_names : IsSubstring(n, s)}
    IN IF contains # {} THEN Matched(ShortestOf(contains))
       ELSE IF contained # {} THEN Matched(ShortestOf(contained))
       ELSE None

\* the two substring heuristics after the alias table
SubstringMatch(s, concept_names) ==
    LET contains == {n \in concept_names : IsSubstring(s, n)}
        contained == {n \in concept_names : IsSubstring(n, s)}
    IN IF contains # {} THEN Matched(ShortestOf(contains))
       ELSE IF contained # {} THEN Matched(LongestOf(contained))
       ELSE None

\* a variant that returns the last candidate that is a catalog name
AliasMatch_LastCandidate(preferred, concept_names) ==
    LET exact == {k \in 1..Len(preferred) : preferred[k] \in concept_names}
    IN IF exact # {}
       THEN Matched(preferred[CHOOSE k \in exact : \A j \in exact : j <= k])
       ELSE None

\* the alias table: the first candidate that is a catalog name, else the first
\* candidate contained in a catalog name, with the shortest such name
AliasMatch(preferred, concept_names) ==
    LET exact == {k \in 1..Len(preferred) : preferred[k] \in concept_names}
        loose == {k \in 1..Len(preferred) :
                     /\ preferred[k] # <<>>
                     /\ \E n \in concept_names : IsSubstring(preferred[k], n)}
    IN IF exact # {} THEN Matched(preferred[FirstPosition(exact)])
       ELSE IF loose # {}
       THEN Matched(ShortestOf(
                {n \in concept_names :
                    IsSubstring(preferred[FirstPosition(loose)], n)}))
       ELSE None

\* a variant that consults the alias table before the catalog itself
match_concept_name_AliasFirst(sector, concept_names) ==
    IF strip(sector) = <<>> THEN None
    ELSE IF AliasMatch(AliasesGet(strip(sector)), concept_names).found
    THEN AliasMatch(AliasesGet(strip(sector)), concept_names)
    ELSE IF strip(sector) \in concept_names THEN Matched(strip(sector))
    ELSE SubstringMatch(strip(sector), concept_names)

\* _match_concept_name(sector, concept_names); the catalog is taken as the set
\* of its names, the result does not depend on their order
match_concept_name(sector, concept_names) ==
    IF strip(sector) = <<>> THEN None
    ELSE IF strip(sector) \in concept_names THEN Matched(strip(sector))
    ELSE IF AliasMatch(AliasesGet(strip(sector)), concept_names).found
    THEN AliasMatch(AliasesGet(strip(sector)), concept_names)
    ELSE SubstringMatch(strip(sector), concept_names)

\* the largest catalog the resolver is run on
MaxCatalog == 3

\* board names of the catalog, as code points
AI_SuanLi == <<65, 73, 31639, 21147>>   \* AI computing power
AI_XinPian == <<65, 73, 33455, 29255>>   \* AI chips
AI_YingYong == <<65, 73, 24212, 29992>>   \* AI applications
SuanLiZuLin == <<31639, 21147, 31199, 36161>>   \* computing power leasing
HuangJinGaiNian == <<40644, 37329, 27010, 24565>>   \* gold concept
HuangJin == <<40644, 37329>>   \* gold
HuangJinGaiNianGu == <<40644, 37329, 27010, 24565, 32929>>   \* gold concept stocks
XinPian == <<33455, 29255>>   \* chips

\* sector names asked for
RenGongZhiNeng == <<20154, 24037, 26234, 33021>>   \* artificial intelligence: an alias key
\* the same between a space and an ideographic space
RenGongZhiNengPadded == <<32, 20154, 24037, 26234, 33021, 12288>>
SuanLi == <<31639, 21147>>   \* computing power: an alias key
LatinAI == <<65, 73>>   \* AI
AI_XinPianGaiNian == <<65, 73, 33455, 29255, 27010, 24565>>   \* AI chips concept
LiDian == <<38146, 30005>>   \* lithium battery
Blank == <<32, 32>>   \* two spaces
HuangJinXinPian == <<40644, 37329, 33455, 29255>>   \* gold chips: two catalog names side by side

CatalogNames ==
    {AI_SuanLi, AI_XinPian, AI_YingYong, SuanLiZuLin, HuangJinGaiNian, HuangJin,
     HuangJinGaiNianGu, XinPian}

Sectors ==
    {RenGongZhiNeng, RenGongZhiNengPadded, SuanLi, LatinAI, AI_XinPianGaiNian,
     LiDian, Blank, <<>>, HuangJin, XinPian, AI_SuanLi, HuangJinXinPian}

Catalogs == {c \in SUBSET CatalogNames : Cardinality(c) <= MaxCatalog}

\* ------------------------------------------------------------------------
\* Batch resolution of sectors to boards (script.py, generate_picks_api)
\* ------------------------------------------------------------------------

\* the defaults of minChange and minTurnover, in percent
DefaultMinChange == 5
DefaultMinTurnover == 5
\* the longest list of sectors a batch is run on
MaxSectors == 3

\* _get_concept_list(): rows with a name and a code
ConceptList ==
    {[name |-> AI_SuanLi, code |-> "BK0800"], [name |-> HuangJin, code |-> "BK0547"]}

\* _get_industry_list()
IndustryList == {[name |-> XinPian, code |-> "BK1036"]}

\* concept_names / industry_names: the names of a board list, stripped, the
\* empty ones left out
BoardNames(board_list) ==
    {strip(r.name) : r \in {x \in board_list : x.name # <<>> /\ strip(x.name) # <<>>}}

\* concept_code_by_name.get(name) / industry_code_by_name.get(name): the code
\* of the row with that name and a code, "" for None
CodeByName(board_list, name) ==
    IF \E r \in board_list : r.name = name /\ r.code # ""
    THEN (CHOOSE r \in board_list : r.name = name /\ r.code # "").code
    ELSE ""

Board(board_kind, matched, board_code) ==
    [board_kind |-> board_kind, matched |-> matched, board_code |-> board_code]

\* the board of one sector: a concept board by _match_concept_name, else an
\* industry board by its exact name, else by the substring heuristics; a board
\* code of "" when nothing is found
ResolveBoard(sector_name, concept_list, industry_list) ==
    IF match_concept_name(sector_name, BoardNames(concept_list)).found
    THEN Board("concept",
               match_concept_name(sector_name, BoardNames(concept_list)).name,
               CodeByName(concept_list,
                   match_concept_name(sector_name, BoardNames(concept_list)).name))
    ELSE IF CodeByName(industry_list, sector_name) # ""
    THEN Board("industry", sector_name, CodeByName(industry_list, sector_name))
    ELSE IF /\ SubstringMatch(sector_name, BoardNames(industry_list)).found
            /\ CodeByName(industry_list,
                   SubstringMatch(sector_name, BoardNames(industry_list)).name) # ""
    THEN Board("industry",
               SubstringMatch(sector_name, BoardNames(industry_list)).name,
               CodeByName(industry_list,
                   SubstringMatch(sector_name, BoardNames(industry_list)).name))
    ELSE Board("concept", <<>>, "")

ConstituentRow(code, pct, turn) == [code |-> code, pct |-> pct, turn |-> turn]

\* _fetch_concept_constituents / _fetch_board_constituents_by_code: the rows
\* the market data lists for a board
Constituents(board) ==
    IF board.board_kind = "concept"
    THEN <<ConstituentRow("s1", Num(6), Num(6)), ConstituentRow("s2", Num(3), Num(6))>>
    ELSE <<ConstituentRow("s3", Num(7), Num(5)), ConstituentRow("s4", Null, Num(9))>>

\* the filter on a constituent row: code, change and turnover present, change
\* and turnover not below the thresholds
Qualifies(r) ==
    /\ r.code # ""
    /\ r.pct # Null /\ r.turn # Null
    /\ ~(r.pct.n < DefaultMinChange \/ r.turn.n < DefaultMinTurnover)

\* the picks of one sector, in the order of the board's rows
RECURSIVE PicksOf(_, _, _)
PicksOf(sector_name, cons, k) ==
    IF k > Len(cons) THEN <<>>
    ELSE (IF Qualifies(cons[k])
          THEN <<[sector |-> sector_name, stock_code |-> cons[k].code]>>
          ELSE <<>>) \o PicksOf(sector_name, cons, k + 1)

Skip(sector_name, board, reason) ==
    [sector |-> sector_name, matched |-> board.matched,
     board_kind |-> board.board_kind, board_code |-> board.board_code,
     reason |-> reason]

\* skipped.append({"sector": sector_name, "reason": "no-board-match"})
NoBoardMatch(sector_name) ==
    Skip(sector_name, Board("none", <<>>, ""), "no-board-match")

\* the sectors a batch may hold: resolved by alias to a concept board; found
\* nowhere; a concept board's name; an industry board's name; a name that
\* contains an industry board's name; blank
BatchSectors == {RenGongZhiNeng, LiDian, HuangJin, XinPian, AI_XinPianGaiNian, Blank}

\* the rows of an earlier run for the same day
OldPicks == {[sector |-> LiDian, stock_code |-> "s0"]}

\* variant: the first unresolved sector ends the loop
generate_picks_sector_StopsAtNoMatch ==
    /\ picksRun.pc = "loop"
    /\ picksRun.i <= Len(picksRun.sectors)
    /\ LET sector_name == strip(picksRun.sectors[picksRun.i])
           board == ResolveBoard(sector_name, picksRun.concept_list,
                                 picksRun.industry_list)
           next == [picksRun EXCEPT !.i = @ + 1]
       IN picksRun' =
             IF sector_name = <<>> THEN next
             ELSE IF board.board_code = ""
             THEN [picksRun EXCEPT
                      !.i = Len(picksRun.sectors) + 1,
                      !.skipped = Append(@, NoBoardMatch(sector_name))]
             ELSE IF board.board_kind \in picksRun.failing
             THEN [next EXCEPT
                      !.fetched = Append(@, board),
                      !.skipped = Append(@, Skip(sector_name, board, "fetch-failed"))]
             ELSE [next EXCEPT
                      !.fetched = Append(@, board),
                      !.matched_sectors = @ + 1,
                      !.picks = @ \o PicksOf(sector_name, Constituents(board), 1)]
    /\ UNCHANGED <<appVars, ruleVars, matchVars, fetchRun, cacheRun>>

\* generate_picks_api: the sectors of the day are loaded; none, and the answer
\* is an empty result; else the board lists are fetched once, [] for a list
\* whose fetch raises
generate_picks_load ==
    /\ picksRun.pc = "start"
    /\ picksRun' =
          IF picksRun.sectors = <<>>
          THEN [picksRun EXCEPT !.pc = "done", !.resp = 200]
          ELSE [picksRun EXCEPT
                   !.pc = "loop", !.i = 1,
                   !.concept_list = IF "concept_list" \in picksRun.failing
                                    THEN {} ELSE ConceptList,
                   !.industry_list = IF "industry_list" \in picksRun.failing
                                     THEN {} ELSE IndustryList]
    /\ UNCHANGED <<appVars, ruleVars, matchVars, fetchRun, cacheRun>>

\* one round of `for srow in sectors`
generate_picks_sector ==
    /\ picksRun.pc = "loop"
    /\ picksRun.i <= Len(picksRun.sectors)
    /\ LET sector_name == strip(picksRun.sectors[picksRun.i])
           board == ResolveBoard(sector_name, picksRun.concept_list,
                                 picksRun.industry_list)
           next == [picksRun EXCEPT !.i = @ + 1]
       IN picksRun' =
             IF sector_name = <<>> THEN next
             ELSE IF board.board_code = ""
             THEN [next EXCEPT !.skipped = Append(@, NoBoardMatch(sector_name))]
             ELSE IF board.board_kind \in picksRun.failing
             THEN [next EXCEPT
                      !.fetched = Append(@, board),
                      !.skipped = Append(@, Skip(sector_name, board, "fetch-failed"))]
             ELSE [next EXCEPT
                      !.fetched = Append(@, board),
                      !.matched_sectors = @ + 1,
                      !.picks = @ \o PicksOf(sector_name, Constituents(board), 1)]
    /\ UNCHANGED <<appVars, ruleVars, matchVars, fetchRun, cacheRun>>

\* after the loop: the day's rows are replaced by the picks in one
\* transaction; a database error rolls back and answers 500
generate_picks_persist ==
    /\ picksRun.pc = "loop"
    /\ picksRun.i > Len(picksRun.sectors)
    /\ picksRun' =
          IF "db" \in picksRun.failing
          THEN [picksRun EXCEPT !.pc = "done", !.resp = 500]
          ELSE [picksRun EXCEPT
                   !.pc = "done", !.resp = 200,
                   !.table = {picksRun.picks[k] : k \in 1..Len(picksRun.picks)}]
    /\ UNCHANGED <<appVars, ruleVars, matchVars, fetchRun, cacheRun>>

\* ------------------------------------------------------------------------
\* Constituent fetch (script.py, _fetch_board_constituents_by_code)
\* ------------------------------------------------------------------------

\* page_size (PICKS_BOARD_PAGE_SIZE, 50..500 in the code) and max_pages
\* (PICKS_BOARD_MAX_PAGES, 1..50 in the code), scaled down
PageSize == 2
MaxPages == 3

\* f12 of an item as the upstream sends it: none, a, b, and a after a space
ItemCodes == {<<>>, <<97>>, <<98>>, <<32, 97>>}

\* diff of one answer: up to one item more than was asked for
Pages == SeqsUpTo(ItemCodes, PageSize + 1)

\* the for-loop over one page: the stripped codes not seen before, in order
RECURSIVE NewCodes(_, _, _)
NewCodes(diff, seen_codes, k) ==
    IF k > Len(diff) THEN <<>>
    ELSE IF strip(diff[k]) = <<>> \/ strip(diff[k]) \in seen_codes
    THEN NewCodes(diff, seen_codes, k + 1)
    ELSE <<strip(diff[k])>> \o NewCodes(diff, seen_codes \cup {strip(diff[k])}, k + 1)

SeqRange(seq) == {seq[k] : k \in 1..Len(seq)}

\* variant: `while True` in place of `for pn in range(1, max_pages + 1)`
fetch_page_Unbounded ==
    /\ fetchRun.pc = "loop"
    /\ \E diff \in Pages :
          fetchRun' =
             [fetchRun EXCEPT
                 !.requests = Append(@, fetchRun.pn),
                 !.lens = Append(@, Len(diff)),
                 !.out = @ \o NewCodes(diff, SeqRange(fetchRun.out), 1),
                 !.pn = @ + 1,
                 !.pc = IF diff = <<>> \/ Len(diff) < PageSize THEN "done" ELSE "loop"]
    /\ UNCHANGED <<appVars, ruleVars, matchVars, picksRun, cacheRun>>

\* the entry: an empty board code returns [] without a request
fetch_start ==
    /\ fetchRun.pc = "start"
    /\ fetchRun' = [fetchRun EXCEPT
                       !.pc = IF strip(fetchRun.board_code) = <<>> THEN "done"
                              ELSE "loop",
                       !.pn = 1]
    /\ UNCHANGED <<appVars, ruleVars, matchVars, picksRun, cacheRun>>

\* one round of `for pn in range(1, max_pages + 1)`: the request for page pn
\* and the answer's items; the loop ends on an empty or short page and after
\* page max_pages
fetch_page ==
    /\ fetchRun.pc = "loop"
    /\ \E diff \in Pages :
          fetchRun' =
             [fetchRun EXCEPT
                 !.requests = Append(@, fetchRun.pn),
                 !.lens = Append(@, Len(diff)),
                 !.out = @ \o NewCodes(diff, SeqRange(fetchRun.out), 1),
                 !.pn = @ + 1,
                 !.pc = IF diff = <<>> \/ Len(diff) < PageSize THEN "done"
                        ELSE IF fetchRun.pn + 1 > MaxPages THEN "done"
                        ELSE "loop"]
    /\ UNCHANGED <<appVars, ruleVars, matchVars, picksRun, cacheRun>>

\* the request for page pn raises in _em_clist_get: the exception leaves the
\* function
fetch_page_raises ==
    /\ fetchRun.pc = "loop"
    /\ fetchRun' = [fetchRun EXCEPT !.requests = Append(@, fetchRun.pn),
                                    !.pc = "raised"]
    /\ UNCHANGED <<appVars, ruleVars, matchVars, picksRun, cacheRun>>

\* ------------------------------------------------------------------------
\* Rule-engine harness: one stock evaluated under one enabled-rule list
\* ------------------------------------------------------------------------

InitRules ==
    /\ NoRows
    /\ env = Fixture(0, FALSE, <<>>, {}, {}, TRUE, <<>>)
    /\ \E c \in UniqueKeys(SeqsUpTo(RuleConfigRows, MaxRules)) :
         \E s \in SnapshotsFor(c) :
           \E a \in AkFor(c, s) :
             ruleIn = [snapshot |-> s, rules_config |-> c, ak |-> a]
    /\ ruleOut = NoOutput
    /\ matchIn = NoQuery
    /\ matchOut = NoMatch
    /\ picksRun = NoPicksRun
    /\ fetchRun = NoFetchRun
    /\ cacheRun = NoCacheRun

\* the body of step4_apply_rules' loop for one Pool-1 entry: evaluate, then
\* write the Pool-2 row fields
ApplyRules ==
    /\ ~ruleOut.done
    /\ LET r == apply_rules_to_stock(ruleIn.snapshot, ruleIn.rules_config, ruleIn.ak)
       IN ruleOut' = [done |-> TRUE, is_selected |-> r.is_selected,
                      tech_score |-> r.tech_score, fund_score |-> r.fund_score,
                      total_score |-> r.total_score, rule_results |-> r.rule_results]
    /\ UNCHANGED <<ruleIn, appVars, matchVars, picksRun, fetchRun, cacheRun>>

NextRules == ApplyRules

SpecRules == InitRules /\ [][NextRules]_vars

\* ------------------------------------------------------------------------
\* Resolver harness: one sector name resolved against one catalog
\* ------------------------------------------------------------------------

InitMatch ==
    /\ NoRows
    /\ env = Fixture(0, FALSE, <<>>, {}, {}, TRUE, <<>>)
    /\ ruleIn = NoInput
    /\ ruleOut = NoOutput
    /\ \E q \in Sectors : \E c \in Catalogs :
          matchIn = [sector |-> q, concept_names |-> c]
    /\ matchOut = NoMatch
    /\ picksRun = NoPicksRun
    /\ fetchRun = NoFetchRun
    /\ cacheRun = NoCacheRun

MatchConcept ==
    /\ ~matchOut.done
    /\ matchOut' = [done |-> TRUE,
                    found |-> match_concept_name(matchIn.sector,
                                                 matchIn.concept_names).found,
                    name |-> match_concept_name(matchIn.sector,
                                                matchIn.concept_names).name]
    /\ UNCHANGED <<matchIn, ruleVars, appVars, picksRun, fetchRun, cacheRun>>

NextMatch == MatchConcept

SpecMatch == InitMatch /\ [][NextMatch]_vars

\* ------------------------------------------------------------------------
\* Batch harness: one generate_picks_api request
\* ------------------------------------------------------------------------

InitPicks ==
    /\ NoRows
    /\ env = Fixture(0, FALSE, <<>>, {}, {}, TRUE, <<>>)
    /\ ruleIn = NoInput
    /\ ruleOut = NoOutput
    /\ matchIn = NoQuery
    /\ matchOut = NoMatch
    /\ \E sectors \in SeqsUpTo(BatchSectors, MaxSectors) :
          \E failing \in {{}, {"concept"}, {"industry"}, {"concept_list"},
                          {"industry_list"}, {"db"}} :
             picksRun = [pc |-> "start", sectors |-> sectors, failing |-> failing,
                         concept_list |-> {}, industry_list |-> {}, i |-> 0,
                         picks |-> <<>>, skipped |-> <<>>, fetched |-> <<>>,
                         matched_sectors |-> 0, table |-> OldPicks, resp |-> 0]
    /\ fetchRun = NoFetchRun
    /\ cacheRun = NoCacheRun

NextPicks ==
    \/ generate_picks_load
    \/ generate_picks_sector
    \/ generate_picks_persist

SpecPicks == InitPicks /\ [][NextPicks]_vars

\* ------------------------------------------------------------------------
\* Rerun harness: clear_step_data (pipeline_repository.py) and run_step_task
\* called as rerun_step's code calls them, on a report that has completed
\* ------------------------------------------------------------------------

\* the collaborators at the time of the rerun: as in the run; the LLM down;
\* the market data down
RerunFixtures ==
    { Fixture(1, FALSE, OneTopic, {}, {}, TRUE, SelectiveRules),
      Fixture(1, TRUE, <<>>, {}, {}, TRUE, SelectiveRules),
      Fixture(1, FALSE, OneTopic, {"b1", "b2"}, {}, TRUE, SelectiveRules) }

\* the Pool-1 columns of report 1 after a run with the first fixture
CompletedPool1 ==
    <<[report_id |-> 1, stock_code |-> "s1", related_topic_id |-> 1,
       match_reason |-> "b1", snapshot_data |-> MarketSnapshot("s1")],
      [report_id |-> 1, stock_code |-> "s2", related_topic_id |-> 1,
       match_reason |-> "b1", snapshot_data |-> MarketSnapshot("s2")],
      [report_id |-> 1, stock_code |-> "s2", related_topic_id |-> 1,
       match_reason |-> "b2", snapshot_data |-> MarketSnapshot("s2")]>>

\* the tables after POST /api/reports and one completed run of report 1
InitRerun ==
    /\ env \in RerunFixtures
    /\ reports = {[id |-> 1, report_date |-> "d1", status |-> "completed"]}
    /\ raw_articles = Inserted(<<[report_id |-> 1]>>, 1)
    /\ hot_topics = Inserted(<<[report_id |-> 1, related_boards |-> <<"b1", "b2">>]>>, 1)
    /\ stock_pool_1 = Inserted(CompletedPool1, 1)
    /\ stock_pool_2 = Inserted(Pool2Rows(ById(Inserted(CompletedPool1, 1)),
                                         [k \in 1..Len(SelectiveRules) |->
                                             [SelectiveRules[k] EXCEPT
                                                 !.rule_value.is_dict = TRUE]]), 1)
    /\ nextId = [reports |-> 2, raw_articles |-> 2, hot_topics |-> 2,
                 stock_pool_1 |-> 4, stock_pool_2 |-> 4]
    /\ background_tasks = {}
    /\ h = [w \in Workers |-> Idle]
    /\ nreq = 0
    /\ ruleIn = NoInput
    /\ ruleOut = NoOutput
    /\ matchIn = NoQuery
    /\ matchOut = NoMatch
    /\ picksRun = NoPicksRun
    /\ fetchRun = NoFetchRun
    /\ cacheRun = NoCacheRun

\* variant: the deletes in the order of the stages, 2 then 3 then 4
ClearNext_StageOrder(step_number, steps) ==
    IF step_number <= 2 /\ 2 \notin SeqRange(steps) THEN 2
    ELSE IF step_number <= 3 /\ 3 \notin SeqRange(steps) THEN 3
    ELSE IF step_number <= 4 /\ 4 \notin SeqRange(steps) THEN 4
    ELSE 0

\* clear_step_data: the stage whose table is deleted next, given the deletes
\* done; 0 when there is none left
ClearNext(step_number, steps) ==
    IF step_number <= 4 /\ 4 \notin SeqRange(steps) THEN 4
    ELSE IF step_number <= 3 /\ 3 \notin SeqRange(steps) THEN 3
    ELSE IF step_number <= 2 /\ 2 \notin SeqRange(steps) THEN 2
    ELSE 0

\* fk_pool2_pool1 ON DELETE CASCADE: the Pool-2 rows left when Pool-1 rows go
CascadePool2(deleted) ==
    {x \in stock_pool_2 : \A y \in deleted : x.pool_1_id # y.id}

\* fk_pool1_topic ON DELETE SET NULL (0 for NULL)
SetNullPool1(rows, deleted) ==
    {IF \E t \in deleted : t.id = x.related_topic_id
     THEN [x EXCEPT !.related_topic_id = 0] ELSE x : x \in rows}

\* rerun_step reaches clear_step_data(conn, report_id, step_number)
clear_step_data_call(w, report_id, step_number) ==
    /\ Free(w)
    /\ nreq' = nreq + 1
    /\ h' = [h EXCEPT ![w] =
                [Request("clear_step_data", report_id, "none", step_number)
                    EXCEPT !.pc = "clear"]]
    /\ UNCHANGED <<tables, env, background_tasks, harnessVars>>

\* one DELETE of clear_step_data, committed on its own (autocommit)
clear_step_data_delete(w) ==
    /\ h[w].pc = "clear"
    /\ LET stage == ClearNext(h[w].step_number, h[w].steps)
           report_id == h[w].report_id
       IN /\ stage # 0
          /\ CASE stage = 4 ->
                   /\ stock_pool_2' = stock_pool_2 \ RowsOf(stock_pool_2, report_id)
                   /\ UNCHANGED <<stock_pool_1, hot_topics>>
               [] stage = 3 ->
                   /\ stock_pool_1' = stock_pool_1 \ RowsOf(stock_pool_1, report_id)
                   /\ stock_pool_2' = CascadePool2(RowsOf(stock_pool_1, report_id))
                   /\ UNCHANGED hot_topics
               [] OTHER ->
                   /\ hot_topics' = hot_topics \ RowsOf(hot_topics, report_id)
                   /\ stock_pool_1' = SetNullPool1(stock_pool_1,
                                                   RowsOf(hot_topics, report_id))
                   /\ UNCHANGED stock_pool_2
          /\ h' = [h EXCEPT ![w] = [@ EXCEPT !.steps = Append(@, stage)]]
    /\ UNCHANGED <<reports, raw_articles, nextId, env, background_tasks, nreq,
                   harnessVars>>

\* background_tasks.add_task(run_step_task, report_id, step_number) and the
\* response; the task runs after the response has been sent
add_task(w) ==
    /\ h[w].pc = "clear"
    /\ ClearNext(h[w].step_number, h[w].steps) = 0
    /\ background_tasks' = background_tasks \cup
          {[n |-> h[w].n, report_id |-> h[w].report_id,
            step_number |-> h[w].step_number]}
    /\ h' = [h EXCEPT ![w] = Respond(@, 200)]
    /\ UNCHANGED <<tables, env, nreq, harnessVars>>

NextRerun ==
    \/ \E w \in Workers, x \in reports, step_number \in 2..4 :
          clear_step_data_call(w, x.id, step_number)
    \/ \E w \in Workers : clear_step_data_delete(w)
    \/ \E w \in Workers : add_task(w)
    \/ \E task \in background_tasks : run_step_task(task)

SpecRerun == InitRerun /\ [][NextRerun]_vars

\* ------------------------------------------------------------------------
\* Properties of the rule engine
\* ------------------------------------------------------------------------

\* what rule i of the evaluated list yields on the evaluated stock
OutcomeOf(i) == CheckRule(ruleIn.rules_config[i], ruleIn.snapshot, ruleIn.ak)
EveryEnabledRulePassed ==
    \A i \in 1..Len(ruleIn.rules_config) : ~OutcomeOf(i).raised /\ OutcomeOf(i).passed

\* C1: the Pool-2 row of a stock has is_selected = true exactly when every
\* enabled rule passed on it and its total_score is positive; one enabled rule
\* that does not pass forces is_selected = false whatever the score.
C1_SelectionGate ==
    ruleOut.done =>
        /\ ruleOut.is_selected <=> (EveryEnabledRulePassed /\ ruleOut.total_score > 0)
        /\ (\E i \in 1..Len(ruleIn.rules_config) :
                ~OutcomeOf(i).raised /\ ~OutcomeOf(i).passed) => ~ruleOut.is_selected

\* a stock with one rule passing at full score and one rule failing: the score
\* is positive and the stock is not selected
C1_Witness ==
    /\ ruleOut.done
    /\ Len(ruleIn.rules_config) = 2
    /\ ~OutcomeOf(1).raised /\ OutcomeOf(1).passed /\ OutcomeOf(1).score = ScoreOne
    /\ ~OutcomeOf(2).raised /\ ~OutcomeOf(2).passed
    /\ ruleOut.total_score > 0
    /\ ~ruleOut.is_selected

\* ------------------------------------------------------------------------
\* Properties of the rerun endpoint
\* ------------------------------------------------------------------------

\* this step is handler w receiving and answering a rerun_step request
RerunHandled(w) ==
    /\ nreq' = nreq + 1
    /\ h'[w].n = nreq'
    /\ h'[w].op = "rerun_step"

\* ... one with a valid step for a report that exists
ValidRerunHandled(w) ==
    /\ RerunHandled(w)
    /\ h'[w].step_number \in 2..4
    /\ ReportExists(h'[w].report_id)

\* C2: a rerun_step with step 2, 3 or 4 leaves the report without the rows of
\* that stage and of every later stage, and with the rows of every earlier
\* stage as they were: step 2 empties Topics, Pool 1 and Pool 2, step 3 empties
\* Pool 1 and Pool 2 and keeps Topics, step 4 empties Pool 2 only; Articles are
\* kept in every case.
C2_RerunDeletesFromStepOn ==
    [][\A w \in Workers :
          ValidRerunHandled(w) =>
             LET id == h'[w].report_id
                 step == h'[w].step_number
             IN /\ RowsOf(stock_pool_2', id) = {}
                /\ RowsOf(stock_pool_1', id) =
                      (IF step <= 3 THEN {} ELSE RowsOf(stock_pool_1, id))
                /\ RowsOf(hot_topics', id) =
                      (IF step <= 2 THEN {} ELSE RowsOf(hot_topics, id))
                /\ RowsOf(raw_articles', id) = RowsOf(raw_articles, id)]_vars

\* the content of rows: the columns without the AUTO_INCREMENT id, in id order
Content(rows) ==
    LET sorted == ById(rows)
    IN [k \in 1..Len(sorted) |->
           [c \in DOMAIN sorted[k] \ {"id"} |-> sorted[k][c]]]

\* what one pass of stage 3 over the report's topics writes to Pool 1
Regenerated(report_id) == SavedOfTopics(report_id, get_report_topics(report_id), 1)

\* C3: once a rerun_step(id, 3) has finished (answered, nothing of it left to
\* run), Pool 1 of the report holds one regeneration of stage 3 from the
\* report's topics and nothing accumulated from before, so that a second
\* rerun_step(id, 3) yields rows of the same number and content.
C3_RerunRegenerates ==
    [][\A w \in Workers :
          (/\ ValidRerunHandled(w)
           /\ h'[w].step_number = 3
           /\ \A task \in background_tasks' : task.report_id # h'[w].report_id)
          => Content(RowsOf(stock_pool_1', h'[w].report_id))
                = Regenerated(h'[w].report_id)]_vars

\* nothing is running: every handler has answered and no task is scheduled
Quiescent ==
    /\ \A w \in Workers : h[w].pc \in {"idle", "done"}
    /\ background_tasks = {}

\* C4: when the latest request was a rerun_step(id, 2) on a report with
\* articles, under collaborators for which every stage yields rows, and
\* everything it started has run, Topics, Pool 1 and Pool 2 of the report are
\* all regenerated, not only the rows of stage 2.
C4_RerunRunsStagesToTheEnd ==
    \A w \in Workers :
        (/\ Quiescent
         /\ h[w].op = "rerun_step" /\ h[w].n = nreq /\ h[w].step_number = 2
         /\ ReportExists(h[w].report_id)
         /\ RowsOf(raw_articles, h[w].report_id) # {}
         /\ env = Fixture(1, FALSE, OneTopic, {}, {}, TRUE, SelectiveRules))
        => /\ RowsOf(hot_topics, h[w].report_id) # {}
           /\ RowsOf(stock_pool_1, h[w].report_id) # {}
           /\ RowsOf(stock_pool_2, h[w].report_id) # {}

\* C5: a rerun_step with a valid step on an existing report leaves the report
\* with status processing, whatever the status was.
C5_RerunSetsProcessing ==
    [][\A w \in Workers :
          ValidRerunHandled(w) =>
             \E x \in reports' :
                 x.id = h'[w].report_id /\ x.status = "processing"]_vars

\* C6: a rerun_step with a step outside 2..4 is answered 400 at once: no row of
\* any table is deleted or changed, no report status changes and no stage
\* execution is scheduled.
C6_InvalidStepRejected ==
    [][\A w \in Workers :
          (RerunHandled(w) /\ h'[w].step_number \notin 2..4) =>
             /\ h'[w].resp = 400 /\ h'[w].pc = "done"
             /\ tables' = tables
             /\ background_tasks' = background_tasks]_vars

\* a step-5 rerun answered 400 on a completed report that has topics, Pool-1
\* and Pool-2 rows
C6_Witness ==
    \E w \in Workers :
        /\ h[w].op = "rerun_step" /\ h[w].n = nreq
        /\ h[w].step_number = 5 /\ h[w].resp = 400
        /\ ReportExists(h[w].report_id)
        /\ ReportById(h[w].report_id).status = "completed"
        /\ RowsOf(hot_topics, h[w].report_id) # {}
        /\ RowsOf(stock_pool_1, h[w].report_id) # {}
        /\ RowsOf(stock_pool_2, h[w].report_id) # {}

\* C7: a rerun_step with a valid step on an existing report whose last run
\* left status error or completed is accepted: the handler answers 200.
C7_RerunAcceptedAfterRun ==
    [][\A w \in Workers :
          (/\ ValidRerunHandled(w)
           /\ ReportById(h'[w].report_id).status \in {"error", "completed"})
          => h'[w].resp = 200]_vars

\* ------------------------------------------------------------------------
\* Properties of report creation and of the full run
\* ------------------------------------------------------------------------

\* C8: there is never more than one report row of a date, however the lookups
\* and inserts of concurrent requests for that date interleave.
C8_OneReportPerDate ==
    \A x \in reports : \A y \in reports :
        x.report_date = y.report_date => x.id = y.id

\* a run that found no report of its date at the lookup and had its insert
\* refused, because a report of that date was created in between
C8_Witness ==
    \E w \in Workers :
        /\ h[w].op = "generate_report" /\ h[w].pc = "done"
        /\ h[w].report_id = 0
        /\ h[w].error = "IntegrityError 1062"
        /\ \E x \in reports : x.report_date = h[w].report_date

\* C9: no run_full_pipeline call ends with the duplicate-key failure of its
\* insert: the caller that loses the race for a date goes on with the id of
\* the report that exists.
C9_LoserContinues ==
    \A w \in Workers :
        h[w].op = "generate_report" =>
            ~(h[w].resp = 500 /\ h[w].error = "IntegrityError 1062")

\* the stages a run at this position has behind it
StagesBefore(pc) ==
    CASE pc = "stage1" -> <<>>
      [] pc = "stage2" -> <<1>>
      [] pc = "stage3" -> <<1, 2>>
      [] pc = "stage4" -> <<1, 2, 3>>
      [] OTHER -> <<>>

IsPrefix(s, t) == Len(s) <= Len(t) /\ \A k \in 1..Len(s) : s[k] = t[k]

\* C10: within one run the stages are executed in the order 1, 2, 3, 4, none
\* twice and none ahead of a predecessor: what a run has executed is always a
\* prefix of 1, 2, 3, 4, a run about to execute stage k has executed exactly
\* the stages before k, and at each step from one stage to the next the rows
\* the finished stage wrote are in the table.
C10_StagesInOrder ==
    [][\A w \in Workers :
          h'[w].op = "generate_report" =>
             /\ IsPrefix(h'[w].steps, <<1, 2, 3, 4>>)
             /\ h'[w].pc \in {"stage1", "stage2", "stage3", "stage4"}
                   => h'[w].steps = StagesBefore(h'[w].pc)
             /\ h'[w].status = "completed" => h'[w].steps = <<1, 2, 3, 4>>
             /\ (h[w].pc = "stage1" /\ h'[w].pc = "stage2")
                   => RowsOf(raw_articles', h'[w].report_id) # {}
             /\ (h[w].pc = "stage2" /\ h'[w].pc = "stage3")
                   => RowsOf(hot_topics', h'[w].report_id) # {}
             /\ (h[w].pc = "stage3" /\ h'[w].pc = "stage4")
                   => RowsOf(stock_pool_1', h'[w].report_id) # {}
             /\ (h[w].pc = "stage4" /\ h'[w].pc = "done")
                   => \A x \in RowsOf(stock_pool_1, h'[w].report_id) :
                         \E y \in RowsOf(stock_pool_2', h'[w].report_id) :
                             y.pool_1_id = x.id]_vars

\* two runs for the same report interleaved, both through all four stages
C10_Witness ==
    \E w \in Workers : \E v \in Workers \ {w} :
        /\ h[w].op = "generate_report" /\ h[v].op = "generate_report"
        /\ h[w].report_id = h[v].report_id
        /\ h[w].status = "completed" /\ h[v].status = "completed"
        /\ h[w].steps = <<1, 2, 3, 4>> /\ h[v].steps = <<1, 2, 3, 4>>
        /\ h[w].n = nreq /\ h[v].n = nreq - 1


\* ------------------------------------------------------------------------
\* Properties of failing and empty stages
\* ------------------------------------------------------------------------

\* this step is run w executing the stage it stands at
StageStep(w) ==
    /\ h[w].op = "generate_report"
    /\ h[w].pc \in {"stage1", "stage2", "stage3", "stage4"}
    /\ h'[w] # h[w]

\* the stage run w executes in this step raises
StageRaises(w) ==
    \/ /\ h[w].pc = "stage1"
       /\ RowsOf(raw_articles, h[w].report_id) = {}
       /\ env.crawl > 0
       /\ ~ReportExists(h[w].report_id)
    \/ /\ h[w].pc = "stage2"
       /\ step2_extract_topics(h[w].report_id).raised

\* the stage run w executes in this step ends without a row of its own output
StageYieldsNothing(w) ==
    \/ /\ h[w].pc = "stage1"
       /\ RowsOf(raw_articles, h[w].report_id) = {}
       /\ env.crawl = 0
    \/ /\ h[w].pc = "stage2"
       /\ ~step2_extract_topics(h[w].report_id).raised
       /\ Len(step2_extract_topics(h[w].report_id).topics) = 0
    \/ /\ h[w].pc = "stage3"
       /\ step3_get_board_stocks(h[w].report_id).stock_count = 0

\* the report of run w, if it is still there, has this status after the step
ReportStatusAfter(w, status) ==
    \A x \in reports' : x.id = h[w].report_id => x.status = status

\* C11: when a stage of a run raises, or the run turns to error at a stage,
\* the run halts there: it returns at once with result status error and the
\* error recorded, the report has status error, no later stage has executed,
\* and no row that was in raw_articles, hot_topics or stock_pool_1 is removed.
C11_FailureHaltsAndKeepsRows ==
    [][\A w \in Workers :
          (StageStep(w) /\ (StageRaises(w) \/ h'[w].status = "error")) =>
             /\ h'[w].pc = "done" /\ h'[w].status = "error"
             /\ h'[w].error # "none"
             /\ ReportStatusAfter(w, "error")
             /\ h'[w].steps \in
                   {StagesBefore(h[w].pc),
                    Append(StagesBefore(h[w].pc), Len(StagesBefore(h[w].pc)) + 1)}
             /\ raw_articles \subseteq raw_articles'
             /\ hot_topics \subseteq hot_topics'
             /\ stock_pool_1 \subseteq stock_pool_1'
             /\ stock_pool_2' = stock_pool_2]_vars

\* a run halted by the LLM failure of stage 2: status error, the articles of
\* stage 1 still there, nothing of stages 2 to 4
C11_Witness ==
    \E w \in Workers :
        /\ h[w].op = "generate_report" /\ h[w].pc = "done"
        /\ h[w].status = "error" /\ h[w].error = "LLMError"
        /\ h[w].steps = <<1>>
        /\ ReportExists(h[w].report_id)
        /\ ReportById(h[w].report_id).status = "error"
        /\ RowsOf(raw_articles, h[w].report_id) # {}
        /\ RowsOf(hot_topics, h[w].report_id) = {}

\* C12: when stage 1, 2 or 3 of a run yields nothing (no article, no topic,
\* no Pool-1 candidate), the run ends in that step with status error, never
\* completed, and the step creates no row of any later stage.
C12_EmptyStageIsError ==
    [][\A w \in Workers :
          (StageStep(w) /\ StageYieldsNothing(w)) =>
             /\ h'[w].pc = "done" /\ h'[w].status = "error"
             /\ ReportStatusAfter(w, "error")
             /\ h[w].pc = "stage1" => hot_topics' = hot_topics
             /\ h[w].pc \in {"stage1", "stage2"} => stock_pool_1' = stock_pool_1
             /\ stock_pool_2' = stock_pool_2]_vars

\* a run over zero sourced articles: status error, no Topic, Pool-1 or Pool-2
\* row for the report
C12_Witness ==
    \E w \in Workers :
        /\ h[w].op = "generate_report" /\ h[w].pc = "done"
        /\ h[w].error = "No articles found" /\ h[w].steps = <<1>>
        /\ ReportExists(h[w].report_id)
        /\ ReportById(h[w].report_id).status = "error"
        /\ RowsOf(raw_articles, h[w].report_id) = {}
        /\ RowsOf(hot_topics, h[w].report_id) = {}
        /\ RowsOf(stock_pool_1, h[w].report_id) = {}
        /\ RowsOf(stock_pool_2, h[w].report_id) = {}

\* C13: a run that reaches stage 4 (stage 3 has saved at least one Pool-1
\* entry) ends there with status completed, whatever the rules select: an
\* empty selection, also one caused by rule evaluations that raise, is not an
\* error.
C13_Stage4AlwaysCompletes ==
    [][\A w \in Workers :
          (StageStep(w) /\ h[w].pc = "stage4") =>
             /\ h'[w].pc = "done" /\ h'[w].status = "completed"
             /\ h'[w].error = "none" /\ h'[w].resp = 200
             /\ h'[w].steps = <<1, 2, 3, 4>>
             /\ ReportStatusAfter(w, "completed")]_vars

\* a completed run whose rule list holds an unregistered key: Pool-2 rows
\* written, none of them selected
C13_Witness ==
    \E w \in Workers :
        /\ h[w].op = "generate_report" /\ h[w].status = "completed"
        /\ h[w].n = nreq
        /\ ReportExists(h[w].report_id)
        /\ ReportById(h[w].report_id).status = "completed"
        /\ \E k \in 1..Len(env.strategy_config) :
               get_rule_class(env.strategy_config[k].rule_key) = "KeyError"
        /\ RowsOf(stock_pool_2, h[w].report_id) # {}
        /\ \A x \in RowsOf(stock_pool_2, h[w].report_id) : ~x.is_selected

\* C14: stage 1 of a run for a report that has an Article row fetches nothing
\* and leaves raw_articles as it is, no row added and none removed, and the run
\* goes on to stage 2.
C14_ArticlesNotRefetched ==
    [][\A w \in Workers :
          (/\ StageStep(w) /\ h[w].pc = "stage1"
           /\ RowsOf(raw_articles, h[w].report_id) # {})
          => /\ raw_articles' = raw_articles
             /\ nextId'.raw_articles = nextId.raw_articles
             /\ h'[w].pc = "stage2" /\ h'[w].steps = <<1>>]_vars

\* a second run for a report whose first run crawled its one article: past
\* stage 1 with still exactly that article
C14_Witness ==
    \E w \in Workers :
        /\ h[w].op = "generate_report" /\ h[w].pc = "stage2"
        /\ env.crawl = 1
        /\ Cardinality(RowsOf(raw_articles, h[w].report_id)) = 1
        /\ nextId.raw_articles = 2
        /\ RowsOf(stock_pool_2, h[w].report_id) # {}
        /\ \E v \in Workers \ {w} :
              /\ h[v].op = "generate_report" /\ h[v].status = "completed"
              /\ h[v].report_id = h[w].report_id

\* ------------------------------------------------------------------------
\* Properties of the rules on missing data, unknown keys and scores
\* ------------------------------------------------------------------------

\* the evaluated stock has no value for the metric rule i reads: the key is
\* missing or None in the snapshot and no fallback fetch supplies one
MetricMissing(i) ==
    LET m == MetricOf(ruleIn.rules_config[i].rule_key)
    IN /\ ruleIn.snapshot[m] \in {Absent, Null}
       /\ ruleIn.ak[m] = Null

\* C15: every registered rule evaluated on a stock without the metric it
\* reads returns passed = true with score 0.5 and does not raise.
C15_MissingMetricPolicy ==
    ruleOut.done =>
        \A i \in 1..Len(ruleIn.rules_config) :
            (/\ ruleIn.rules_config[i].rule_key \in RULE_REGISTRY
             /\ MetricMissing(i))
            => OutcomeOf(i) = RuleResult(TRUE, ScoreHalf)

\* the positions of the evaluated list whose rule is registered and returns
Recorded ==
    SelectSeq([i \in 1..Len(ruleIn.rules_config) |-> i],
              LAMBDA i : /\ ruleIn.rules_config[i].rule_key \in RULE_REGISTRY
                         /\ ~OutcomeOf(i).raised)

RECURSIVE SumScores(_, _)
SumScores(positions, k) ==
    IF k = 0 THEN 0
    ELSE OutcomeOf(positions[k]).score + SumScores(positions, k - 1)

\* C16: a stock evaluated under a rule list that holds an unregistered key is
\* not selected, and the evaluation goes on past that rule: the outcome of
\* every other rule that returns is recorded, in list order, its score is
\* added to total_score, and the Pool-2 fields are written.
C16_UnknownKeyFailsOneRule ==
    (/\ ruleOut.done
     /\ \E i \in 1..Len(ruleIn.rules_config) :
            ruleIn.rules_config[i].rule_key \notin RULE_REGISTRY)
    => /\ ~ruleOut.is_selected
       /\ ruleOut.rule_results =
             [k \in 1..Len(Recorded) |->
                 [rule_key |-> ruleIn.rules_config[Recorded[k]].rule_key,
                  passed |-> OutcomeOf(Recorded[k]).passed,
                  score |-> OutcomeOf(Recorded[k]).score]]
       /\ ruleOut.total_score = SumScores(Recorded, Len(Recorded))

\* an unregistered key first, then a rule that passes at full score: the
\* second rule is recorded and scored, the stock is not selected
C16_Witness ==
    /\ ruleOut.done
    /\ Len(ruleIn.rules_config) = 2
    /\ ruleIn.rules_config[1].rule_key = "ai_score"
    /\ ruleIn.rules_config[2].rule_key = "price_change"
    /\ OutcomeOf(2) = RuleResult(TRUE, ScoreOne)
    /\ Len(ruleOut.rule_results) = 1
    /\ ruleOut.rule_results[1].rule_key = "price_change"
    /\ ruleOut.total_score = ScoreOne
    /\ ~ruleOut.is_selected

\* the recorded positions whose rule belongs to a bucket
InBucket(keys) ==
    SelectSeq(Recorded, LAMBDA i : ruleIn.rules_config[i].rule_key \in keys)

\* the score of a bucket: the sum over its recorded rules divided by the number
\* of enabled rules of the bucket, 0 for a bucket without enabled rule
BucketScore(keys) ==
    LET enabled == {i \in 1..Len(ruleIn.rules_config) :
                       ruleIn.rules_config[i].rule_key \in keys}
    IN IF enabled = {} THEN 0
       ELSE SumScores(InBucket(keys), Len(InBucket(keys))) \div Cardinality(enabled)

\* C17: total_score is the sum of the scores of all rule outcomes; tech_score
\* is the sum over the technical rules divided by the number of enabled
\* technical rules, fund_score likewise over the fundamental rules; a bucket
\* without enabled rule scores 0.
C17_ScoreAggregation ==
    ruleOut.done =>
        /\ ruleOut.total_score = SumScores(Recorded, Len(Recorded))
        /\ ruleOut.tech_score = BucketScore(TECH_RULES)
        /\ ruleOut.fund_score = BucketScore(FUND_RULES)

\* two technical rules, one at full score and one at zero: tech_score is their
\* mean, total_score their sum, and the empty fundamental bucket scores 0
C17_Witness ==
    /\ ruleOut.done
    /\ Len(ruleIn.rules_config) = 2
    /\ ruleIn.rules_config[1].rule_key = "price_change"
    /\ ruleIn.rules_config[2].rule_key = "turnover_rate"
    /\ OutcomeOf(1) = RuleResult(TRUE, ScoreOne)
    /\ OutcomeOf(2) = RuleResult(FALSE, ScoreZero)
    /\ ruleOut.total_score = ScoreOne
    /\ ruleOut.tech_score = ScoreHalf
    /\ ruleOut.fund_score = 0

\* ------------------------------------------------------------------------
\* Properties of the board-name resolver
\* ------------------------------------------------------------------------

\* the query as the resolver reads it
Query == strip(matchIn.sector)

\* a is b, or sorts before it
StrLessEq(a, b) == a = b \/ StrLess(a, b)

\* C18: a query that is a key of the alias table and not a catalog name
\* resolves to the first name of the key's candidate list, in list order, that
\* is a catalog name, whatever the substring heuristics would have found.
C18_AliasExactFirst ==
    LET preferred == AliasesGet(Query)
    IN (/\ matchOut.done
        /\ Query # <<>>
        /\ Query \notin matchIn.concept_names
        /\ \E k \in 1..Len(preferred) : preferred[k] \in matchIn.concept_names)
       => /\ matchOut.found
          /\ \E k \in 1..Len(preferred) :
                /\ matchOut.name = preferred[k]
                /\ preferred[k] \in matchIn.concept_names
                /\ \A j \in 1..(k - 1) : preferred[j] \notin matchIn.concept_names

\* artificial intelligence asked for, AI computing power and AI chips in the
\* catalog: AI computing power, listed before AI chips, is returned
C18_Witness ==
    /\ matchOut.done
    /\ matchIn.sector = RenGongZhiNeng
    /\ matchIn.concept_names = {AI_SuanLi, AI_XinPian}
    /\ matchOut.found
    /\ matchOut.name = AI_SuanLi

\* C19: a query that, trimmed, is not empty and is a catalog name resolves to
\* exactly that name, whatever the alias table lists for it and whichever other
\* catalog names contain it or are contained in it.
C19_ExactMatchWins ==
    (matchOut.done /\ Query # <<>> /\ Query \in matchIn.concept_names)
    => (matchOut.found /\ matchOut.name = Query)

\* gold asked for, which the alias table maps to gold concept first, with gold
\* and gold concept both in the catalog: gold is returned
C19_Witness ==
    /\ matchOut.done
    /\ matchIn.sector = HuangJin
    /\ {HuangJin, HuangJinGaiNian} \subseteq matchIn.concept_names
    /\ AliasesGet(Query)[1] = HuangJinGaiNian
    /\ matchOut.found
    /\ matchOut.name = HuangJin

\* C20: when the query is no catalog name and the alias table gives nothing,
\* the result is the shortest catalog name containing the query (the
\* lexicographically first among equally short ones); if no catalog name
\* contains the query, the longest catalog name contained in the query (the
\* lexicographically first among equally long ones); if there is none either,
\* no match.
C20_SubstringFallbacks ==
    LET contains == {n \in matchIn.concept_names : IsSubstring(Query, n)}
        contained == {n \in matchIn.concept_names : IsSubstring(n, Query)}
    IN (/\ matchOut.done
        /\ Query # <<>>
        /\ Query \notin matchIn.concept_names
        /\ ~AliasMatch(AliasesGet(Query), matchIn.concept_names).found)
       => /\ contains # {} =>
                /\ matchOut.found
                /\ matchOut.name \in contains
                /\ \A m \in contains :
                      \/ Len(matchOut.name) < Len(m)
                      \/ Len(matchOut.name) = Len(m) /\ StrLessEq(matchOut.name, m)
          /\ (contains = {} /\ contained # {}) =>
                /\ matchOut.found
                /\ matchOut.name \in contained
                /\ \A m \in contained :
                      \/ Len(matchOut.name) > Len(m)
                      \/ Len(matchOut.name) = Len(m) /\ StrLessEq(matchOut.name, m)
          /\ (contains = {} /\ contained = {}) => ~matchOut.found

\* AI chips concept asked for, AI chips and chips in the catalog and no name
\* containing the query: the longer of the two contained names is returned
C20_Witness ==
    /\ matchOut.done
    /\ matchIn.sector = AI_XinPianGaiNian
    /\ {AI_XinPian, XinPian} \subseteq matchIn.concept_names
    /\ \A n \in matchIn.concept_names : ~IsSubstring(Query, n)
    /\ matchOut.found
    /\ matchOut.name = AI_XinPian

\* ------------------------------------------------------------------------
\* Properties of stage 3's per-item failures
\* ------------------------------------------------------------------------

\* this step is run w executing stage 3
Stage3Step(w) ==
    /\ h[w].op = "generate_report"
    /\ h[w].pc = "stage3"
    /\ h'[w] # h[w]

\* the step saves stock_code of board_name for the topic to Pool-1
SavedToPool1(report_id, topic_id, board_name, stock_code) ==
    \E x \in stock_pool_1' \ stock_pool_1 :
        /\ x.report_id = report_id
        /\ x.related_topic_id = topic_id
        /\ x.match_reason = board_name
        /\ x.stock_code = stock_code

\* C22: in stage 3 a failed constituent fetch of one board, or a failed
\* snapshot fetch of one stock, costs that item only: every constituent whose
\* snapshot can be fetched, of every board whose constituents can be fetched,
\* of every topic, is saved to Pool-1 - the constituents that follow a failed
\* snapshot in the same board included.
C22_ItemFailureIsLocal ==
    [][\A w \in Workers :
          Stage3Step(w) =>
             LET topics == get_report_topics(h[w].report_id)
             IN \A t \in 1..Len(topics) :
                   \A j \in 1..Len(topics[t].related_boards) :
                      LET board_name == topics[t].related_boards[j]
                          stocks == BoardStocks(board_name)
                      IN board_name \notin env.failing_boards =>
                            \A k \in 1..Len(stocks) :
                               stocks[k] \notin env.failing_snapshots =>
                                  SavedToPool1(h[w].report_id, topics[t].id,
                                               board_name, stocks[k])]_vars

\* ------------------------------------------------------------------------
\* Properties of the batch over sectors
\* ------------------------------------------------------------------------

\* the sector at position i as the loop reads it, and its board
BatchSector(i) == strip(picksRun.sectors[i])
BatchBoard(i) ==
    ResolveBoard(BatchSector(i), picksRun.concept_list, picksRun.industry_list)

\* the sector at position i has no board
Unresolved(i) == BatchSector(i) # <<>> /\ BatchBoard(i).board_code = ""

InSeq(x, seq) == \E k \in 1..Len(seq) : seq[k] = x

\* C21: at the end of a batch every sector without a board is in the skipped
\* list with reason no-board-match; every other sector (not blank) has had
\* its board's constituents fetched and, where the fetch succeeded, its
\* qualifying constituents are among the picks; and the request answers 200
\* unless the database fails at the end.
C21_NoBoardMatchIsSkipped ==
    (picksRun.pc = "done" /\ picksRun.sectors # <<>>) =>
       /\ \A i \in 1..Len(picksRun.sectors) :
             /\ Unresolved(i) =>
                   InSeq(NoBoardMatch(BatchSector(i)), picksRun.skipped)
             /\ (BatchSector(i) # <<>> /\ ~Unresolved(i)) =>
                   /\ InSeq(BatchBoard(i), picksRun.fetched)
                   /\ BatchBoard(i).board_kind \notin picksRun.failing =>
                         \A k \in 1..Len(Constituents(BatchBoard(i))) :
                            Qualifies(Constituents(BatchBoard(i))[k]) =>
                               InSeq([sector |-> BatchSector(i),
                                      stock_code |-> Constituents(BatchBoard(i))[k].code],
                                     picksRun.picks)
       /\ picksRun.resp = IF "db" \in picksRun.failing THEN 500 ELSE 200

\* a batch of lithium batteries, which has no board, and then artificial
\* intelligence: one skip, the picks of the second sector stored, answer 200
C21_Witness ==
    /\ picksRun.pc = "done"
    /\ picksRun.sectors = <<LiDian, RenGongZhiNeng>>
    /\ picksRun.skipped = <<NoBoardMatch(LiDian)>>
    /\ picksRun.fetched = <<Board("concept", AI_SuanLi, "BK0800")>>
    /\ picksRun.picks = <<[sector |-> RenGongZhiNeng, stock_code |-> "s1"]>>
    /\ picksRun.table = {[sector |-> RenGongZhiNeng, stock_code |-> "s1"]}
    /\ picksRun.resp = 200

\* ------------------------------------------------------------------------
\* Fetch harness: one _fetch_board_constituents_by_code call
\* ------------------------------------------------------------------------

InitFetch ==
    /\ NoRows
    /\ env = Fixture(0, FALSE, <<>>, {}, {}, TRUE, <<>>)
    /\ ruleIn = NoInput
    /\ ruleOut = NoOutput
    /\ matchIn = NoQuery
    /\ matchOut = NoMatch
    /\ picksRun = NoPicksRun
    /\ \E board_code \in {<<66, 75, 49>>, <<32>>} :
          fetchRun = [pc |-> "start", board_code |-> board_code, pn |-> 0,
                      requests |-> <<>>, lens |-> <<>>, out |-> <<>>]
    /\ cacheRun = NoCacheRun

NextFetch ==
    \/ fetch_start
    \/ fetch_page
    \/ fetch_page_raises

SpecFetch == InitFetch /\ [][NextFetch]_vars

\* ------------------------------------------------------------------------
\* Properties of the constituent fetch
\* ------------------------------------------------------------------------

\* C23: the pages requested are 1, 2, ... in order; no page is requested
\* after an empty or short one; there are never more than max_pages requests
\* and after max_pages requests the call is over; and no stock code is in the
\* result twice.
C23_PaginationBounded ==
    fetchRun.pc \in {"loop", "done", "raised"} =>
       /\ \A k \in 1..Len(fetchRun.requests) : fetchRun.requests[k] = k
       /\ \A k \in 1..Len(fetchRun.lens) :
             fetchRun.lens[k] < PageSize =>
                (k = Len(fetchRun.requests) /\ fetchRun.pc = "done")
       /\ Len(fetchRun.requests) <= MaxPages
       /\ Len(fetchRun.requests) = MaxPages => fetchRun.pc # "loop"
       /\ \A i \in 1..Len(fetchRun.out) : \A j \in 1..Len(fetchRun.out) :
             fetchRun.out[i] = fetchRun.out[j] => i = j

\* max_pages full pages that repeat the code a, once with a space before it:
\* max_pages requests, then the end, with a in the result once
C23_Witness ==
    /\ fetchRun.pc = "done"
    /\ fetchRun.requests = [k \in 1..MaxPages |-> k]
    /\ \A k \in 1..MaxPages : fetchRun.lens[k] >= PageSize
    /\ fetchRun.out = <<<<97>>, <<98>>>>

\* ------------------------------------------------------------------------
\* Properties of Pool-2 against Pool-1
\* ------------------------------------------------------------------------

\* the Pool-2 rows that refer to a Pool-1 entry
Pool2Of(pool_1_id) == {x \in stock_pool_2 : x.pool_1_id = pool_1_id}

\* C24: Pool-2 is 1:1 with Pool-1: whatever requests have been served, no
\* Pool-1 entry has more than one Pool-2 row, and when a run has completed
\* every Pool-1 entry of its report has exactly one.
C24_Pool2OneToOne ==
    /\ \A x \in stock_pool_1 : Cardinality(Pool2Of(x.id)) <= 1
    /\ \A w \in Workers :
          (h[w].op = "generate_report" /\ h[w].pc = "done"
             /\ h[w].status = "completed") =>
             \A x \in RowsOf(stock_pool_1, h[w].report_id) :
                Cardinality(Pool2Of(x.id)) = 1

\* ------------------------------------------------------------------------
\* Properties of Report.status
\* ------------------------------------------------------------------------

\* the place of a status on pending -> processing -> {completed | error}
StatusRank(status) ==
    CASE status = "pending" -> 0
      [] status = "processing" -> 1
      [] OTHER -> 2

\* C26: the status of a report changes only forward along pending ->
\* processing -> {completed | error}, except that a rerun_step request for the
\* report may take it back to processing; no other step, a second
\* run_full_pipeline for the report's date included, takes a completed or
\* failed report back.
C26_StatusOnlyForward ==
    [][\A x \in reports : \A y \in reports' :
          (y.id = x.id /\ y.status # x.status) =>
             \/ StatusRank(y.status) > StatusRank(x.status)
             \/ /\ y.status = "processing"
                /\ \E w \in Workers :
                      RerunHandled(w) /\ h'[w].report_id = x.id]_vars

\* ------------------------------------------------------------------------
\* Properties of the end of a run
\* ------------------------------------------------------------------------

\* this step is run w returning after it has set the report to processing
RunReturns(w) ==
    /\ h[w].op = "generate_report"
    /\ h[w].status = "processing"
    /\ h[w].pc # "done"
    /\ h'[w].pc = "done"

\* C28: a run that has set its report to processing returns with result
\* status completed or error, never processing; the report, if it is still
\* there, has that same status; and a run returns completed for a report that
\* is still there only when the report has an article, a topic and a Pool-1
\* entry.
C28_RunEndsCompletedOrError ==
    [][\A w \in Workers :
          RunReturns(w) =>
             /\ h'[w].status \in {"completed", "error"}
             /\ ReportStatusAfter(w, h'[w].status)
             /\ (h'[w].status = "completed"
                   /\ \E x \in reports' : x.id = h[w].report_id) =>
                   /\ \E x \in raw_articles' : x.report_id = h[w].report_id
                   /\ \E x \in hot_topics' : x.report_id = h[w].report_id
                   /\ \E x \in stock_pool_1' : x.report_id = h[w].report_id]_vars

\* two runs have returned, one with error and one with completed, and the
\* report of the completed one has the status completed and rows of the
\* first three stages
C28_Witness ==
    \E w \in Workers : \E v \in Workers :
        /\ h[w].op = "generate_report" /\ h[w].pc = "done"
        /\ h[w].status = "completed"
        /\ h[v].op = "generate_report" /\ h[v].pc = "done"
        /\ h[v].status = "error"
        /\ ReportExists(h[w].report_id)
        /\ ReportById(h[w].report_id).status = "completed"
        /\ RowsOf(raw_articles, h[w].report_id) # {}
        /\ RowsOf(hot_topics, h[w].report_id) # {}
        /\ RowsOf(stock_pool_1, h[w].report_id) # {}

\* ------------------------------------------------------------------------
\* Properties of the rerun path: clear_step_data and the background task
\* ------------------------------------------------------------------------

\* this step is the background task running its stage
TaskRuns(task) == task \in background_tasks /\ task \notin background_tasks'

\* the stage of the task raises or yields nothing, as run_full_pipeline counts
\* a failure of stage 2 or 3
TaskStageFails(task) ==
    \/ /\ task.step_number = 2
       /\ \/ step2_extract_topics(task.report_id).raised
          \/ step2_extract_topics(task.report_id).rows = {}
    \/ /\ task.step_number = 3
       /\ step3_get_board_stocks(task.report_id).stock_count = 0

NoDanglingReference ==
    /\ \A x \in stock_pool_2 : \E y \in stock_pool_1 : y.id = x.pool_1_id
    /\ \A x \in stock_pool_1 :
          x.related_topic_id = 0 \/ \E t \in hot_topics : t.id = x.related_topic_id

\* C27: clear_step_data deletes Pool-2 first, then Pool-1, then Topics, and in
\* every state of a deletion, the states between two deletes included, every
\* Pool-2 row has its Pool-1 row and every Pool-1 row that names a Topic has
\* that Topic.
C27_ClearInDependencyOrder ==
    /\ \A w \in Workers :
          h[w].op = "clear_step_data" =>
             h[w].steps \in {<<>>, <<4>>, <<4, 3>>, <<4, 3, 2>>}
    /\ NoDanglingReference

\* a deletion from stage 2 on between its second and its third delete: Pool-1
\* is gone, the Topics are still there
C27_Witness ==
    \E w \in Workers :
        /\ h[w].pc = "clear" /\ h[w].step_number = 2 /\ h[w].steps = <<4, 3>>
        /\ RowsOf(hot_topics, h[w].report_id) # {}
        /\ RowsOf(stock_pool_1, h[w].report_id) = {}

IndustryPz == 2
IndustryMaxPn == 2

\* SECTOR_INDUSTRY_CACHE_TTL in seconds: values up to MaxTtl, 0 for a cache
\* switched off
MaxTtl == 2

\* time.time() at the first call: later than any TTL after 0.0
Epoch == MaxTtl + 1

\* the last second modelled
MaxClock == 5

\* the calls of one behaviour
MaxCalls == 3

\* the items of an upstream answer: f12 the code, f14 the name; one with a
\* blank name
IndustryItems ==
    { [f12 |-> <<97>>, f14 |-> XinPian],
      [f12 |-> <<32, 98>>, f14 |-> HuangJin],
      [f12 |-> <<99>>, f14 |-> <<32>>] }

\* the answers of the upstream to the requests for page 1, 2, ...: a diff each
\* the upstream has a further page only after a full one
IndustryAnswers ==
    {answers \in SeqsUpTo(SeqsUpTo(IndustryItems, IndustryPz), IndustryMaxPn) :
        \A pn \in 1..(Len(answers) - 1) : Len(answers[pn]) = IndustryPz}

\* `for it in diff`: the rows with a code and a name, stripped
RECURSIVE IndustryRows(_, _)
IndustryRows(diff, i) ==
    IF i > Len(diff) THEN <<>>
    ELSE LET code == strip(diff[i].f12)
             name == strip(diff[i].f14)
         IN (IF code # <<>> /\ name # <<>>
             THEN <<[name |-> name, code |-> code]>> ELSE <<>>)
            \o IndustryRows(diff, i + 1)

\* the `while True` loop from page pn on: the rows collected and the requests
\* made; a page the upstream has no answer for is empty; the request
\* raises_at raises out of the function
RECURSIVE FetchIndustry(_, _, _)
FetchIndustry(answers, raises_at, pn) ==
    IF pn = raises_at THEN [raised |-> TRUE, out |-> <<>>, requests |-> 1]
    ELSE LET diff == IF pn <= Len(answers) THEN answers[pn] ELSE <<>>
             rest == IF diff = <<>> \/ Len(diff) < IndustryPz \/ pn + 1 > IndustryMaxPn
                     THEN [raised |-> FALSE, out |-> <<>>, requests |-> 0]
                     ELSE FetchIndustry(answers, raises_at, pn + 1)
         IN [raised |-> rest.raised,
             out |-> IndustryRows(diff, 1) \o rest.out,
             requests |-> 1 + rest.requests]

\* the cached catalog is served
CacheServes(cache, ttl_s, now) ==
    cache.items # <<>> /\ ttl_s > 0 /\ (now - cache.ts) < ttl_s

\* variant: whatever was fetched is stored
CacheAfter_StoresEmpty(cache, out, now) == [ts |-> now, items |-> out]

\* `if out:` the cache entry after a fetch that returned out
CacheAfter(cache, out, now) ==
    IF out # <<>> THEN [ts |-> now, items |-> out] ELSE cache

\* one _get_industry_list call; fetched and fetched_at remember the latest
\* non-empty catalog the upstream returned and when
get_industry_list ==
    /\ cacheRun.pc = "run"
    /\ cacheRun.calls < MaxCalls
    /\ IF CacheServes(cacheRun.cache, cacheRun.ttl_s, cacheRun.now)
       THEN cacheRun' = [cacheRun EXCEPT !.calls = @ + 1, !.requests = 0,
                                         !.raised = FALSE,
                                         !.out = cacheRun.cache.items]
       ELSE \E answers \in IndustryAnswers, raises_at \in 0..IndustryMaxPn :
               LET r == FetchIndustry(answers, raises_at, 1)
               IN cacheRun' =
                     IF r.raised
                     THEN [cacheRun EXCEPT !.calls = @ + 1, !.requests = r.requests,
                                           !.raised = TRUE, !.out = <<>>]
                     ELSE [cacheRun EXCEPT
                              !.calls = @ + 1, !.requests = r.requests,
                              !.raised = FALSE, !.out = r.out,
                              !.cache = CacheAfter(cacheRun.cache, r.out, cacheRun.now),
                              !.fetched = IF r.out # <<>> THEN r.out ELSE @,
                              !.fetched_at = IF r.out # <<>> THEN cacheRun.now ELSE @]
    /\ UNCHANGED <<appVars, ruleVars, matchVars, picksRun, fetchRun>>

\* a second passes
cache_clock ==
    /\ cacheRun.pc = "run"
    /\ cacheRun.now < MaxClock
    /\ cacheRun' = [cacheRun EXCEPT !.now = @ + 1]
    /\ UNCHANGED <<appVars, ruleVars, matchVars, picksRun, fetchRun>>

InitCache ==
    /\ NoRows
    /\ env = Fixture(0, FALSE, <<>>, {}, {}, TRUE, <<>>)
    /\ ruleIn = NoInput
    /\ ruleOut = NoOutput
    /\ matchIn = NoQuery
    /\ matchOut = NoMatch
    /\ picksRun = NoPicksRun
    /\ fetchRun = NoFetchRun
    /\ \E ttl_s \in 0..MaxTtl :
          cacheRun = [pc |-> "run", ttl_s |-> ttl_s, now |-> Epoch,
                      cache |-> [ts |-> 0, items |-> <<>>],
                      calls |-> 0, requests |-> 0, raised |-> FALSE, out |-> <<>>,
                      fetched |-> <<>>, fetched_at |-> 0]

NextCache ==
    \/ get_industry_list
    \/ cache_clock

SpecCache == InitCache /\ [][NextCache]_vars

\* ------------------------------------------------------------------------
\* Properties of the catalog cache
\* ------------------------------------------------------------------------

\* this step is a _get_industry_list call
CatalogCall == cacheRun.pc = "run" /\ cacheRun'.calls = cacheRun.calls + 1

\* seconds since the upstream last returned a non-empty catalog
CatalogAge == cacheRun.now - cacheRun.fetched_at

\* C29: with a TTL above 0, a call less than TTL seconds after a fetch that
\* returned a non-empty catalog returns exactly that catalog and makes no
\* upstream request; a call TTL or more seconds after it makes an upstream
\* request; and the cache entry changes only to a non-empty catalog just
\* fetched, so an empty refresh leaves a cached catalog in place.
C29_CatalogCache ==
    [][/\ (CatalogCall /\ cacheRun.ttl_s > 0 /\ cacheRun.fetched # <<>>
             /\ CatalogAge < cacheRun.ttl_s) =>
             /\ cacheRun'.out = cacheRun.fetched
             /\ ~cacheRun'.raised
             /\ cacheRun'.requests = 0
       /\ (CatalogCall /\ cacheRun.ttl_s > 0 /\ cacheRun.fetched # <<>>
             /\ CatalogAge >= cacheRun.ttl_s) =>
             cacheRun'.requests >= 1
       /\ (cacheRun.pc = "run" /\ cacheRun'.cache # cacheRun.cache) =>
             /\ cacheRun'.cache.items # <<>>
             /\ cacheRun'.cache.items = cacheRun'.out
             /\ cacheRun'.requests >= 1]_vars

\* a catalog fetched earlier has just been served from the cache, a second or
\* more after the fetch
C29_Witness ==
    /\ cacheRun.pc = "run"
    /\ cacheRun.calls >= 2
    /\ cacheRun.requests = 0
    /\ cacheRun.out # <<>>
    /\ cacheRun.out = cacheRun.fetched
    /\ cacheRun.now > cacheRun.fetched_at

====
